---- MODULE Spec2Model ----
(***************************************************************************)
(* Model of the Graphoria repository-state orchestrator (src-tauri):       *)
(* the interactive-rebase orchestrator with its reword-map side file, the  *)
(* per-repository operation lock, and the conflict-resolution commands.    *)
(*                                                                         *)
(* Every git subprocess call of a handler is one step of the calling       *)
(* thread; pc[t] is the position of thread t inside its handler.  The VCS  *)
(* itself is the environment: its outcomes (exit code, sentinel files,     *)
(* conflicts, hash abbreviation) are chosen with \E inside the step that    *)
(* runs the subprocess.                                                    *)
(***************************************************************************)
EXTENDS Integers, Sequences, FiniteSets, TLC

\* Number of commits on the branch above the base reference.
NumCommits == 2

\* Number of commands the UI invokes in one behaviour.
MaxCalls == 3

Commits == 1..NumCommits

None == "none"

Paths == {"f"}

\* Full object name of commit c (two "digits"); commits 2 and 3 share the
\* first digit, so a one-digit abbreviation is not always unique.
Hash(c) == << c \div 2, c % 2 >>

\* str::starts_with: s.starts_with(p)
StartsWith(s, p) == Len(p) <= Len(s) /\ SubSeq(s, 1, Len(p)) = p

\* The abbreviations git may print for commit c: the prefixes of its name
\* that no other commit shares (the full name included).
Abbrevs(c) ==
  { p \in { SubSeq(Hash(c), 1, n) : n \in 1..Len(Hash(c)) } :
      \A d \in Commits \ {c} : ~StartsWith(Hash(d), p) }

\* The name git prints for commit c: the full one, or (short) its shortest
\* unambiguous abbreviation.
GitAbbrev(c, short) ==
  IF short
    THEN CHOOSE p \in Abbrevs(c) : \A q \in Abbrevs(c) : Len(p) <= Len(q)
    ELSE Hash(c)

\* A commit as it sits on the branch: src is the commit it was picked from.
Commit(c) == [src |-> c, msg |-> "orig", author |-> "dev"]

(***************************************************************************)
(* The repository: working copy plus metadata directory, as one record.    *)
(***************************************************************************)
VARIABLES
  repo,     \* the repository (branch, sentinels, rebase state, reword-map file)
  lock,     \* the thread holding the per-repository operation lock, 0 when free
  pc,       \* pc[t]: position of thread t inside its handler
  op,       \* op[t]: the command thread t is executing
  loc,      \* loc[t]: the handler's local variables
  result,   \* result[t]: what the handler returned (read at pc[t] = "ret")
  calls     \* number of commands invoked so far

vars == << repo, lock, pc, op, loc, result, calls >>

\* The reword-map side file: absent, or holding the JSON object written.
NoFile == [exists |-> FALSE, entries |-> {}]

InitRepo ==
  [ branch      |-> [i \in 1..NumCommits |-> Commit(i)],
    orig        |-> << >>,
    todo        |-> << >>,
    pending     |-> << >>,     \* the instruction whose replay conflicted
    doneAny     |-> FALSE,
    dir         |-> FALSE,     \* .git/rebase-merge exists
    applyDir    |-> FALSE,     \* .git/rebase-apply exists
    rebaseHead  |-> FALSE,     \* REBASE_HEAD resolves
    mergeHead   |-> FALSE,     \* MERGE_HEAD resolves
    stoppedSha  |-> << >>,     \* rebase-merge/stopped-sha ("" when absent)
    unmerged    |-> {},        \* paths with index stages 1..3
    mapFile     |-> NoFile,    \* .git/graphoria-reword-map.json
    dirty       |-> FALSE,     \* a tracked file has unstaged changes
    baseAmended |-> FALSE ]    \* the base commit itself was amended

\* ------------------------------------------------------------------------
\* The VCS (environment).  Each operator is one subprocess run: it maps the
\* repository to the repository afterwards and an exit status.
\* ------------------------------------------------------------------------

Out(r, ok) == [repo |-> r, ok |-> ok]

GitFinishRebase(r) ==
  [r EXCEPT !.orig = << >>, !.todo = << >>, !.pending = << >>, !.doneAny = FALSE,
            !.dir = FALSE, !.applyDir = FALSE, !.rebaseHead = FALSE,
            !.stoppedSha = << >>]

\* The sequencer stops: the state directory of the backend stays, REBASE_HEAD
\* names the commit, the merge backend records stopped-sha.
GitStopAt(r, it, backend, abbr, files) ==
  [r EXCEPT !.todo = Tail(r.todo),
            !.dir = (backend = "merge"),
            !.applyDir = (backend = "apply"),
            !.rebaseHead = TRUE,
            !.stoppedSha = IF backend = "merge" THEN GitAbbrev(it.c, abbr) ELSE << >>,
            !.pending = IF files = {} THEN << >> ELSE << it >>,
            !.doneAny = TRUE,
            !.unmerged = files]

\* Replays the instruction list until it is finished or a stop.
\* cf: the commits whose replay conflicts; stop: "done" | "edit" | "conflict".
RECURSIVE GitRunTodo(_, _, _, _)
GitRunTodo(r, cf, backend, abbr) ==
  IF r.todo = << >>
    THEN [repo |-> GitFinishRebase(r), stop |-> "done"]
    ELSE LET it == Head(r.todo) IN
      IF it.c \in cf
        THEN [repo |-> GitStopAt(r, it, backend, abbr, Paths), stop |-> "conflict"]
      ELSE IF it.cmd = "edit"
        THEN [repo |-> GitStopAt([r EXCEPT !.branch = Append(r.branch, Commit(it.c))],
                                 it, backend, abbr, {}),
              stop |-> "edit"]
      ELSE IF it.cmd = "fixup"
        THEN GitRunTodo([r EXCEPT !.todo = Tail(r.todo)], cf, backend, abbr)
      ELSE GitRunTodo([r EXCEPT !.todo = Tail(r.todo), !.doneAny = TRUE,
                                !.branch = Append(r.branch, Commit(it.c))],
                      cf, backend, abbr)

\* "cannot 'fixup' without a previous commit": the instruction list does not
\* parse; git keeps rebase-merge and waits for --edit-todo.
GitBadTodo(r) == r.todo # << >> /\ Head(r.todo).cmd = "fixup" /\ ~r.doneAny

\* Exit status of the sequencer: 0 when it finished or stopped for an edit.
StopOk(stop) == stop \in {"done", "edit"}

\* git rebase -i --autostash <base> with the sequence editor writing `lines`.
GitRebaseInteractive(r, lines, baseOk, cf, abbr) ==
  IF r.dir \/ r.applyDir \/ ~baseOk \/ r.unmerged # {} \/ r.mergeHead
    THEN Out(r, FALSE)
    ELSE LET r1 == [r EXCEPT !.orig = r.branch, !.branch = << >>, !.todo = lines,
                             !.doneAny = FALSE, !.pending = << >>]
         IN IF GitBadTodo(r1)
              THEN Out([r1 EXCEPT !.dir = TRUE], FALSE)
              ELSE LET run == GitRunTodo(r1, cf, "merge", abbr)
                   IN Out(run.repo, StopOk(run.stop))

\* git rebase --continue.  noChanges: the resolution left nothing to commit
\* ("No changes - did you forget to use 'git add'?", apply backend).  With
\* unstaged changes in the tree it refuses and leaves the stop as it is
\* ("cannot rebase: You have unstaged changes.").
GitRebaseContinue(r, cf, abbr, noChanges) ==
  IF (~r.dir /\ ~r.applyDir) \/ r.unmerged # {} \/ r.dirty \/ GitBadTodo(r)
    THEN Out(r, FALSE)
  ELSE IF r.applyDir /\ r.pending # << >> /\ noChanges
    THEN Out(r, FALSE)
  ELSE LET r1 == IF r.pending # << >> /\ r.pending[1].cmd # "fixup"
                   THEN [r EXCEPT !.pending = << >>,
                                  !.branch = Append(r.branch, Commit(r.pending[1].c))]
                   ELSE [r EXCEPT !.pending = << >>]
           run == GitRunTodo(r1, cf, IF r.applyDir THEN "apply" ELSE "merge", abbr)
       IN Out(run.repo, StopOk(run.stop))

\* git rebase --abort
GitRebaseAbort(r) ==
  IF ~r.dir /\ ~r.applyDir
    THEN Out(r, FALSE)
    ELSE Out([GitFinishRebase(r) EXCEPT !.branch = r.orig, !.unmerged = {}], TRUE)

\* git commit --amend --no-verify [-m msg | --no-edit] [--author a]
GitCommitAmend(r, msg, author) ==
  IF r.unmerged # {} \/ r.mergeHead
    THEN Out(r, FALSE)
  ELSE IF r.branch = << >>
    THEN Out([r EXCEPT !.baseAmended = TRUE], TRUE)
  ELSE LET n == Len(r.branch)
           c == r.branch[n]
           c2 == [c EXCEPT !.msg = IF msg = None THEN c.msg ELSE msg,
                           !.author = IF author = None THEN c.author ELSE author]
       IN Out([r EXCEPT !.branch[n] = c2], TRUE)

\* git reset --hard <base>
GitResetHard(r, baseOk) ==
  IF ~baseOk
    THEN Out(r, FALSE)
    ELSE Out([r EXCEPT !.branch = << >>, !.unmerged = {}, !.mergeHead = FALSE], TRUE)

\* git add -- <path>
GitAdd(r, p) == Out([r EXCEPT !.unmerged = r.unmerged \ {p}], TRUE)

\* ------------------------------------------------------------------------
\* Helpers of the orchestrator.
\* ------------------------------------------------------------------------

is_rebase_in_progress(r) == r.rebaseHead

is_merge_in_progress(r) == r.mergeHead

\* rebase_merge_dir(..).is_some()
rebase_merge_dir(r) == r.dir

\* read_rebase_file(repo, "stopped-sha").map(trim).unwrap_or_default()
read_stopped_sha(r) == IF rebase_merge_dir(r) THEN r.stoppedSha ELSE << >>

list_unmerged_files(r) == r.unmerged

\* get_head_author: the author of HEAD
get_head_author(r) ==
  IF r.branch = << >> THEN "dev" ELSE r.branch[Len(r.branch)].author

\* serde_json of an Option<String>: None is written as null, Some(s) as the
\* JSON string s.
OptToJson(x) == IF x = None THEN << "null" >> ELSE << "string", x >>

\* A reading of the value that takes null for the empty string.
OptFromJsonOrDefault(v) == IF v = << "null" >> THEN "" ELSE v[2]

OptFromJson(v) == IF v = << "null" >> THEN None ELSE v[2]

\* serde_json::to_string(map): one object member per key, the tuple as an
\* array of two values.
MapToJson(m) ==
  { [name |-> e.key, value |-> << OptToJson(e.msg), OptToJson(e.author) >>] : e \in m }

\* serde_json::from_str::<RewordMap>(text)
MapFromJson(j) ==
  { [key |-> x.name, msg |-> OptFromJson(x.value[1]),
     author |-> OptFromJson(x.value[2])] : x \in j }

\* fs::write(path, serde_json::to_string(map))
save_reword_map(r, m) ==
  [r EXCEPT !.mapFile = [exists |-> TRUE, entries |-> MapToJson(m)]]

\* a missing or unreadable file loads as the empty map
load_reword_map(r) ==
  IF r.mapFile.exists THEN MapFromJson(r.mapFile.entries) ELSE {}

cleanup_reword_map(r) == [r EXCEPT !.mapFile = NoFile]

\* Results returned to the caller.
NoResult ==
  [kind |-> "none", status |-> "", hash |-> << >>, author |-> "", files |-> {}]

Err(text) == [NoResult EXCEPT !.kind = "err", !.status = text]

Completed == [NoResult EXCEPT !.kind = "ok", !.status = "completed"]

detect_rebase_state(r) ==
  IF ~is_rebase_in_progress(r) /\ ~rebase_merge_dir(r)
    THEN Completed
    ELSE [kind   |-> "ok",
          status |-> IF list_unmerged_files(r) # {} THEN "conflicts"
                                                    ELSE "stopped_at_edit",
          hash   |-> read_stopped_sha(r),
          author |-> get_head_author(r),
          files  |-> list_unmerged_files(r)]

\* HashMap::insert
MapInsert(m, k, msg, author) ==
  { e \in m : e.key # k } \cup { [key |-> k, msg |-> msg, author |-> author] }

Actions == {"pick", "reword", "edit", "squash", "fixup", "drop"}

Msgs == {None, "m"}

Authors == {None, "a"}

\* str.trim().is_empty()
Blank(s) == s = " "

\* entry.action.trim().to_lowercase(), on the spellings a client sends
TrimLower(a) ==
  CASE a = "Drop" -> "drop"
    [] a = " pick " -> "pick"
    [] a = " AM " -> "am"
    [] OTHER -> a

\* Every entry written to the todo under the action the client named, with
\* nothing recorded in the reword map.
BuildEntryVerbatim(acc, e) ==
  [lines |-> Append(acc.lines, [cmd |-> TrimLower(e.action), hash |-> e.hash]),
   rmap  |-> acc.rmap]

\* The loop body with the explicit edit taken as a manual stop whatever it
\* carries: its author and message are not recorded.
BuildEntryPlainEdit(acc, e) ==
  LET action == TrimLower(e.action)
      cmd == CASE action \in {"reword", "edit"} -> "edit"
               [] action \in {"squash", "fixup"} -> "fixup"
               [] OTHER -> IF e.new_author # None THEN "edit" ELSE "pick"
  IN IF e.hash = << >> \/ action = "drop"
       THEN acc
       ELSE [lines |-> Append(acc.lines, [cmd |-> cmd, hash |-> e.hash]),
             rmap  |-> IF action = "reword"
                         THEN MapInsert(acc.rmap, e.hash, e.new_message, e.new_author)
                       ELSE IF action \notin {"edit", "squash", "fixup"}
                               /\ e.new_author # None
                         THEN MapInsert(acc.rmap, e.hash, None, e.new_author)
                       ELSE acc.rmap]

\* One iteration of the loop over todo_entries: acc = [lines, rmap].
BuildEntry(acc, e) ==
  LET line(cmd) == Append(acc.lines, [cmd |-> cmd, hash |-> e.hash])
      action == TrimLower(e.action)
  IN
  CASE e.hash = << >> -> acc
    [] action = "drop" -> acc
    [] action = "reword" ->
         [lines |-> line("edit"),
          rmap  |-> MapInsert(acc.rmap, e.hash, e.new_message, e.new_author)]
    [] action = "edit" ->
         [lines |-> line("edit"),
          rmap  |-> IF e.new_author # None \/ e.new_message # None
                      THEN MapInsert(acc.rmap, e.hash, e.new_message, e.new_author)
                      ELSE acc.rmap]
    [] action \in {"squash", "fixup"} ->
         [lines |-> line("fixup"), rmap |-> acc.rmap]
    [] OTHER ->
         IF e.new_author # None
           THEN [lines |-> line("edit"),
                 rmap  |-> MapInsert(acc.rmap, e.hash, None, e.new_author)]
           ELSE [lines |-> line("pick"), rmap |-> acc.rmap]

\* `for entry in &todo_entries`: the loop over the entries, oldest first.
RECURSIVE BuildTodo(_, _)
BuildTodo(entries, acc) ==
  IF entries = << >>
    THEN acc
    ELSE BuildTodo(Tail(entries), BuildEntry(acc, Head(entries)))

\* The entries the UI sends for the commits S: f gives each one's action,
\* message and author; the object names are all full or all abbreviated.
RECURSIVE TodoEntries(_, _, _, _)
TodoEntries(S, f, short, c) ==
  IF c > NumCommits THEN << >>
  ELSE IF c \in S
    THEN << [action |-> f[c].action, hash |-> GitAbbrev(c, short),
             new_message |-> f[c].new_message, new_author |-> f[c].new_author] >>
         \o TodoEntries(S, f, short, c + 1)
  ELSE TodoEntries(S, f, short, c + 1)

\* What the loop can build, over every entry list the UI may send for the
\* selected commits S: [lines, rmap] pairs.
TodoBuilds ==
  [S \in (SUBSET Commits) \ {{}} |->
     UNION { { BuildTodo(TodoEntries(S, f, short, 1), [lines |-> << >>, rmap |-> {}]) :
                 f \in [S -> [action : Actions, new_message : Msgs,
                                                new_author : Authors]] } :
             short \in BOOLEAN }]

\* The commits the UI can list for selection: those of the branch, or of the
\* branch as it was before the rebase under way.
Listed(r) ==
  { r.branch[i].src : i \in 1..Len(r.branch) } \cup { r.orig[i].src : i \in 1..Len(r.orig) }

\* The commit an (abbreviated) object name in a todo line resolves to.
Resolve(h) == CHOOSE c \in Commits : h \in Abbrevs(c)

TodoOf(lines) ==
  [i \in 1..Len(lines) |-> [cmd |-> lines[i].cmd, c |-> Resolve(lines[i].hash)]]

\* The lookup with the prefix test lost: any entry matches a stopped hash.
RewordMatchesAny(m, sha) == IF sha # << >> THEN m ELSE {}

\* reword_map.iter().find(|k| k.starts_with(sha) || sha.starts_with(k)):
\* the entries the lookup may return (HashMap iteration order is arbitrary).
RewordMatches(m, sha) ==
  IF sha # << >>
    THEN { e \in m : StartsWith(e.key, sha) \/ StartsWith(sha, e.key) }
    ELSE {}

\* -m <msg> unless the message is unset or blank (then --no-edit)
AmendMsgArg(msg) == IF msg # None /\ ~Blank(msg) THEN msg ELSE None

\* --author <a> unless unset or blank
AmendAuthorArg(author) == IF author # None /\ ~Blank(author) THEN author ELSE None

\* git pull --rebase: replays the branch on the upstream; the backend
\* (rebase.backend, tool version) decides which state directory a stop leaves.
GitPullRebase(r, cf, backend, abbr) ==
  IF r.dir \/ r.applyDir \/ r.mergeHead \/ r.unmerged # {}
    THEN Out(r, FALSE)
    ELSE LET r1 == [r EXCEPT !.orig = r.branch, !.branch = << >>, !.doneAny = FALSE,
                             !.todo = [i \in 1..Len(r.branch) |->
                                         [cmd |-> "pick", c |-> r.branch[i].src]]]
             run == GitRunTodo(r1, cf, backend, abbr)
         IN Out(run.repo, run.stop = "done")

\* git merge <branch>
GitMerge(r, conflict) ==
  IF r.dir \/ r.applyDir \/ r.mergeHead \/ r.unmerged # {}
    THEN Out(r, FALSE)
  ELSE IF conflict
    THEN Out([r EXCEPT !.mergeHead = TRUE, !.unmerged = Paths], FALSE)
    ELSE Out(r, TRUE)

\* git merge --abort
GitMergeAbort(r) ==
  IF ~r.mergeHead
    THEN Out(r, FALSE)
    ELSE Out([r EXCEPT !.mergeHead = FALSE, !.unmerged = {}], TRUE)

\* ------------------------------------------------------------------------
\* Threads and handlers.
\* ------------------------------------------------------------------------

Threads == {1, 2}

NoLoc ==
  [ baseOk  |-> TRUE,    \* the base reference resolves
    sel     |-> {},      \* the commits of todo_entries
    lines   |-> << >>,   \* todo_lines
    rmap    |-> {},      \* reword_map being built
    lmap    |-> {},      \* the map auto_amend_reword_loop loaded
    cur     |-> << >>,   \* reword_entry of this iteration
    msg     |-> None,    \* message argument of amend
    author  |-> None,    \* author argument of amend
    path    |-> "f",     \* path argument
    amended |-> {},      \* commits the loop amended in this call (0: the base)
    shown   |-> << >>,   \* the answer of the call before, as the UI holds it
    entries |-> << >>,   \* todo_entries, when followed one by one
    patch   |-> << >>,   \* the patch file named by patch_path
    method  |-> "",      \* method argument, trimmed and lower-cased
    keep    |-> << >>,   \* << keep_name, keep_content >>
    exit    |-> "" ]     \* the return statement taken

Ops == {"start", "continue", "amend", "rebase_abort", "apply_and_stage",
        "pull_rebase", "merge_branch", "merge_abort"}

Entry(o) ==
  CASE o = "start" -> "start_check"
    [] o = "continue" -> "lock"
    [] o = "apply_and_stage" -> "lock"
    [] o = "take_ours" -> "lock"
    [] o = "take_theirs" -> "lock"
    [] o = "conflict_state" -> "lock"
    [] o = "file_versions" -> "lock"
    [] o = "resolve_rename" -> "lock"
    [] o = "continue_info" -> "info_run"
    [] o = "amend" -> "amend_check"
    [] o = "rebase_abort" -> "abort_run"
    [] o = "pull_rebase" -> "pull_run"
    [] o = "merge_branch" -> "merge_run"
    [] o = "merge_abort" -> "merge_abort_run"

\* First statement of the closure passed to with_repo_git_lock.
Locked(o) ==
  CASE o = "start" -> "start_build"
    [] o = "continue" -> "continue_run"
    [] o = "apply_and_stage" -> "stage_run"
    [] o = "take_ours" -> "take_ours_run"
    [] o = "take_theirs" -> "take_theirs_run"
    [] o = "conflict_state" -> "state_run"
    [] o = "file_versions" -> "versions_run"
    [] o = "resolve_rename" -> "resolve_run"
    [] o = "apply_patch" -> "apply_run"
    [] o = "predict_patch" -> "predict_run"
    [] o = "predict_graph" -> "predict_run"

Init ==
  /\ repo = InitRepo
  /\ lock = 0
  /\ pc = [t \in Threads |-> "idle"]
  /\ op = [t \in Threads |-> "none"]
  /\ loc = [t \in Threads |-> NoLoc]
  /\ result = [t \in Threads |-> NoResult]
  /\ calls = 0

\* The handler moves on to position p.
Goto(t, p, r, l) ==
  /\ repo' = r
  /\ pc' = [pc EXCEPT ![t] = p]
  /\ loc' = [loc EXCEPT ![t] = l]
  /\ UNCHANGED << lock, op, result, calls >>

\* with_repo_git_lock releases the lock when the closure returns.
WithRepoGitLockExit(t) == IF lock = t THEN 0 ELSE lock

\* A return that leaves the lock with the thread that took it.
ReturnKeepingLock(t, res, r, how) ==
  /\ repo' = r
  /\ pc' = [pc EXCEPT ![t] = "ret"]
  /\ result' = [result EXCEPT ![t] = res]
  /\ loc' = [loc EXCEPT ![t] = [@ EXCEPT !.exit = how, !.lines = << >>, !.rmap = {}]]
  /\ UNCHANGED << lock, op, calls >>

\* The handler returns res; `how` names the return statement.
Return(t, res, r, how) ==
  /\ repo' = r
  /\ pc' = [pc EXCEPT ![t] = "ret"]
  /\ result' = [result EXCEPT ![t] = res]
  /\ loc' = [loc EXCEPT ![t] = [@ EXCEPT !.exit = how, !.lines = << >>, !.rmap = {}]]
  /\ lock' = WithRepoGitLockExit(t)
  /\ UNCHANGED << op, calls >>

\* The UI invokes a command (having read the result of the one before).
Invoke(t) ==
  /\ pc[t] \in {"idle", "ret"}
  /\ calls < MaxCalls
  /\ calls' = calls + 1
  /\ \E o \in Ops, baseOk \in BOOLEAN, sel \in SUBSET Listed(repo),
        m \in Msgs, a \in Authors, p \in Paths :
       /\ (o # "start" => baseOk /\ sel = {})
       /\ (o # "amend" => m = None /\ a = None)
       /\ op' = [op EXCEPT ![t] = o]
       /\ pc' = [pc EXCEPT ![t] = Entry(o)]
       /\ loc' = [loc EXCEPT ![t] = [NoLoc EXCEPT !.baseOk = baseOk, !.sel = sel,
                                                  !.msg = m, !.author = a, !.path = p]]
       /\ result' = [result EXCEPT ![t] = NoResult]
  /\ UNCHANGED << repo, lock >>

\* with_repo_git_lock: take the repository's mutex, then run the closure.
WithRepoGitLock(t) ==
  /\ pc[t] = "lock"
  /\ lock = 0
  /\ lock' = t
  /\ pc' = [pc EXCEPT ![t] = Locked(op[t])]
  /\ UNCHANGED << repo, op, loc, result, calls >>

\* git_interactive_rebase_start, before the lock: the argument and
\* in-progress checks.
StartCheck(t) ==
  /\ pc[t] = "start_check"
  /\ IF loc[t].sel = {}
       THEN Return(t, Err("No commits selected for rebase."), repo, "empty")
     ELSE IF is_rebase_in_progress(repo)
       THEN Return(t, Err("A rebase is already in progress."), repo, "in_progress")
     ELSE IF is_merge_in_progress(repo)
       THEN Return(t, Err("A merge is in progress. Resolve it first."), repo, "merge")
     ELSE Goto(t, "lock", repo, loc[t])

\* Inside the lock: build todo_lines and reword_map from the entries; with
\* no line left go to the reset, else save the reword map.
StartBuild(t) ==
  /\ pc[t] = "start_build"
  /\ \E acc \in TodoBuilds[loc[t].sel] :
       IF acc.lines = << >>
         THEN Goto(t, "start_reset", repo, loc[t])
         ELSE Goto(t, "start_rebase", save_reword_map(repo, acc.rmap),
                   [loc[t] EXCEPT !.lines = acc.lines, !.rmap = acc.rmap])

\* All commits dropped: git reset --hard <base>.
StartReset(t) ==
  /\ pc[t] = "start_reset"
  /\ LET out == GitResetHard(repo, loc[t].baseOk) IN
       IF out.ok
         THEN Return(t, Completed, out.repo, "all_dropped")
         ELSE Return(t, Err("Failed to drop commits"), out.repo, "reset_failed")

\* git rebase -i with the injected todo, then the sentinel check.
StartRebase(t) ==
  /\ pc[t] = "start_rebase"
  /\ \E cf \in SUBSET Commits, abbr \in BOOLEAN :
       LET out == GitRebaseInteractive(repo, TodoOf(loc[t].lines), loc[t].baseOk,
                                       cf, abbr)
           r == out.repo
           still_in_progress == rebase_merge_dir(r) \/ is_rebase_in_progress(r)
           state == detect_rebase_state(r)
       IN IF out.ok /\ ~still_in_progress
            THEN Return(t, Completed, cleanup_reword_map(r), "start_completed")
          ELSE IF state.status = "stopped_at_edit"
            THEN Goto(t, "loop_load", r, [loc[t] EXCEPT !.lines = << >>, !.rmap = {}])
          ELSE Return(t, state, r, "start_state")

\* auto_amend_reword_loop: `let reword_map = load_reword_map(repo_path)`
LoopLoad(t) ==
  /\ pc[t] = "loop_load"
  /\ Goto(t, "loop_top", repo, [loc[t] EXCEPT !.lmap = load_reword_map(repo)])

\* Top of one iteration: the directory check and the reword-map lookup.
LoopTop(t) ==
  /\ pc[t] = "loop_top"
  /\ IF ~rebase_merge_dir(repo)
       THEN Return(t, Completed, repo, "loop_no_dir")
       ELSE LET found == RewordMatches(loc[t].lmap, read_stopped_sha(repo)) IN
              IF found = {}
                THEN Return(t, detect_rebase_state(repo), repo, "loop_no_match")
                ELSE \E e \in found :
                       Goto(t, "loop_amend", repo, [loc[t] EXCEPT !.cur = << e >>])

HeadSrc(r) == IF r.branch = << >> THEN 0 ELSE r.branch[Len(r.branch)].src

\* git commit --amend with the recorded message and author.
LoopAmend(t) ==
  /\ pc[t] = "loop_amend"
  /\ LET e == loc[t].cur[1]
         out == GitCommitAmend(repo, AmendMsgArg(e.msg), AmendAuthorArg(e.author))
     IN IF ~out.ok
          THEN Return(t, Err("Failed to amend commit"), out.repo, "loop_amend_failed")
          ELSE Goto(t, "loop_continue", out.repo,
                    [loc[t] EXCEPT !.amended = @ \cup
                       {[sha |-> read_stopped_sha(repo), src |-> HeadSrc(repo)]}])

\* The continue of the loop going round again after any failure, without
\* looking at the state the rebase is left in.
LoopContinueBlind(t) ==
  /\ pc[t] = "loop_continue"
  /\ \E cf \in SUBSET Commits, abbr \in BOOLEAN, noChanges \in BOOLEAN :
       LET out == GitRebaseContinue(repo, cf, abbr, noChanges)
           r == out.repo
       IN IF out.ok /\ ~rebase_merge_dir(r) /\ ~is_rebase_in_progress(r)
            THEN Return(t, Completed, cleanup_reword_map(r), "loop_completed")
            ELSE Goto(t, "loop_top", r, loc[t])

\* git rebase --continue inside the loop.
LoopContinue(t) ==
  /\ pc[t] = "loop_continue"
  /\ \E cf \in SUBSET Commits, abbr \in BOOLEAN, noChanges \in BOOLEAN :
       LET out == GitRebaseContinue(repo, cf, abbr, noChanges)
           r == out.repo
           state == detect_rebase_state(r)
       IN IF out.ok
            THEN IF ~rebase_merge_dir(r) /\ ~is_rebase_in_progress(r)
                   THEN Return(t, Completed, cleanup_reword_map(r), "loop_completed")
                   ELSE Goto(t, "loop_top", r, loc[t])
          ELSE IF state.status = "stopped_at_edit"
            THEN Goto(t, "loop_top", r, loc[t])
          ELSE Return(t, state, r, "loop_state")

\* The continue handler without the auto-amend loop: whatever state the
\* rebase is left in is returned as it is.
ContinueRunNoLoop(t) ==
  /\ pc[t] = "continue_run"
  /\ \E cf \in SUBSET Commits, abbr \in BOOLEAN, noChanges \in BOOLEAN :
       LET out == GitRebaseContinue(repo, cf, abbr, noChanges)
           r == out.repo
       IN IF out.ok /\ ~rebase_merge_dir(r) /\ ~is_rebase_in_progress(r)
            THEN Return(t, Completed, cleanup_reword_map(r), "continue_completed")
            ELSE Return(t, detect_rebase_state(r), r, "continue_state")

\* git_interactive_rebase_continue, inside the lock.
ContinueRun(t) ==
  /\ pc[t] = "continue_run"
  /\ \E cf \in SUBSET Commits, abbr \in BOOLEAN, noChanges \in BOOLEAN :
       LET out == GitRebaseContinue(repo, cf, abbr, noChanges)
           r == out.repo
           state == detect_rebase_state(r)
       IN IF out.ok /\ ~rebase_merge_dir(r) /\ ~is_rebase_in_progress(r)
            THEN Return(t, Completed, cleanup_reword_map(r), "continue_completed")
          ELSE IF state.status = "stopped_at_edit"
            THEN Goto(t, "loop_load", r, loc[t])
          ELSE Return(t, state, r, "continue_state")

\* git_interactive_rebase_amend: `if dir.is_none()`
AmendCheck(t) ==
  /\ pc[t] = "amend_check"
  /\ IF ~rebase_merge_dir(repo)
       THEN Return(t, Err("No interactive rebase in progress."), repo, "amend_no_dir")
       ELSE Goto(t, "amend_run", repo, loc[t])

\* git_interactive_rebase_amend: git commit --amend
AmendRun(t) ==
  /\ pc[t] = "amend_run"
  /\ LET out == GitCommitAmend(repo, AmendMsgArg(loc[t].msg),
                               AmendAuthorArg(loc[t].author))
     IN Return(t, IF out.ok THEN [NoResult EXCEPT !.kind = "ok", !.status = "amended"]
                            ELSE Err("git commit failed"),
               out.repo, "amend")

\* git_rebase_abort: run_git(["rebase", "--abort"])
RebaseAbortRun(t) ==
  /\ pc[t] = "abort_run"
  /\ LET out == GitRebaseAbort(repo)
     IN Return(t, IF out.ok THEN [NoResult EXCEPT !.kind = "ok", !.status = "aborted"]
                            ELSE Err("git command failed"),
               out.repo, "abort")

\* git_conflict_apply_and_stage, inside the lock: write the file, git add.
ApplyAndStageRun(t) ==
  /\ pc[t] = "stage_run"
  /\ LET out == GitAdd(repo, loc[t].path)
     IN Return(t, [NoResult EXCEPT !.kind = "ok", !.status = "ok"], out.repo, "stage")

\* git_pull_rebase
PullRebaseRun(t) ==
  /\ pc[t] = "pull_run"
  /\ \E cf \in SUBSET Commits, backend \in {"merge", "apply"}, abbr \in BOOLEAN :
       LET out == GitPullRebase(repo, cf, backend, abbr)
           r == out.repo
       IN IF out.ok
            THEN Return(t, [NoResult EXCEPT !.kind = "ok", !.status = "ok"], r, "pull_ok")
          ELSE IF is_merge_in_progress(r) \/ is_rebase_in_progress(r)
                  \/ list_unmerged_files(r) # {}
            THEN Return(t, [NoResult EXCEPT !.kind = "ok", !.status = "conflicts",
                                            !.files = list_unmerged_files(r)],
                        r, "pull_conflicts")
          ELSE Return(t, Err("git pull failed"), r, "pull_failed")

\* git_merge_branch
MergeBranchRun(t) ==
  /\ pc[t] = "merge_run"
  /\ \E conflict \in BOOLEAN :
       LET out == GitMerge(repo, conflict)
       IN Return(t, IF out.ok THEN [NoResult EXCEPT !.kind = "ok", !.status = "ok"]
                              ELSE Err("git command failed"),
                 out.repo, "merge")

\* git_merge_abort
MergeAbortRun(t) ==
  /\ pc[t] = "merge_abort_run"
  /\ LET out == GitMergeAbort(repo)
     IN Return(t, IF out.ok THEN [NoResult EXCEPT !.kind = "ok", !.status = "ok"]
                            ELSE Err("git command failed"),
               out.repo, "merge_abort")

Step(t) ==
  \/ Invoke(t)
  \/ WithRepoGitLock(t)
  \/ StartCheck(t)
  \/ StartBuild(t)
  \/ StartReset(t)
  \/ StartRebase(t)
  \/ LoopLoad(t)
  \/ LoopTop(t)
  \/ LoopAmend(t)
  \/ LoopContinue(t)
  \/ ContinueRun(t)
  \/ AmendCheck(t)
  \/ AmendRun(t)
  \/ RebaseAbortRun(t)
  \/ ApplyAndStageRun(t)
  \/ PullRebaseRun(t)
  \/ MergeBranchRun(t)
  \/ MergeAbortRun(t)

\* One caller at a time: every handler runs to its return before the next
\* command is invoked.
Next == Step(1)

Spec == Init /\ [][Next]_vars

\* Two callers (the UI thread and a background worker) on a repository with
\* one commit above the base, with two commands between them.
InitConc ==
  /\ repo = [InitRepo EXCEPT !.branch = << Commit(1) >>]
  /\ lock = 0
  /\ pc = [t \in Threads |-> "idle"]
  /\ op = [t \in Threads |-> "none"]
  /\ loc = [t \in Threads |-> NoLoc]
  /\ result = [t \in Threads |-> NoResult]
  /\ calls = MaxCalls - 2

NextConc == \E t \in Threads : Step(t)

SpecConc == InitConc /\ [][NextConc]_vars

\* ------------------------------------------------------------------------
\* Conflict resolution: take ours / take theirs on a conflicted path.  The
\* repository is here the index (the stages recorded per path), the trees of
\* HEAD and of the incoming side, and what the rename diff reports.
\* ------------------------------------------------------------------------

\* a: the conflicted name; b: another name of the incoming side; x: the name
\* in the common ancestor.
ConfPaths == {"a", "b", "x"}

Idx(a, b, x) ==
  [q \in ConfPaths |-> CASE q = "a" -> a [] q = "b" -> b [] OTHER -> x]

\* What a merge, cherry-pick or rebase step leaves when path a conflicts;
\* from3 is the incoming side's name of the blob recorded as stage 3 of a.
MergeShapes ==
  { \* both sides edited a
    [index |-> Idx({1, 2, 3}, {}, {}), headTree |-> {"a"}, theirsTree |-> {"a"},
     from3 |-> "a"],
    \* edited here, deleted by the incoming side
    [index |-> Idx({1, 2}, {}, {}), headTree |-> {"a"}, theirsTree |-> {},
     from3 |-> None],
    \* edited here; the incoming side moved it to b, too changed for the merge
    \* to pair the two names
    [index |-> Idx({1, 2}, {0}, {}), headTree |-> {"a"}, theirsTree |-> {"b"},
     from3 |-> None],
    \* deleted here, edited by the incoming side
    [index |-> Idx({1, 3}, {}, {}), headTree |-> {}, theirsTree |-> {"a"},
     from3 |-> "a"],
    \* added on both sides
    [index |-> Idx({2, 3}, {}, {}), headTree |-> {"a"}, theirsTree |-> {"a"},
     from3 |-> "a"],
    \* x renamed to a here and to b by the incoming side
    [index |-> Idx({2}, {3}, {1}), headTree |-> {"a"}, theirsTree |-> {"b"},
     from3 |-> None],
    \* x renamed to a here, edited by the incoming side
    [index |-> Idx({1, 2, 3}, {}, {}), headTree |-> {"a"}, theirsTree |-> {"x"},
     from3 |-> "x"],
    \* the same, and the incoming side also added b
    [index |-> Idx({1, 2, 3}, {0}, {}), headTree |-> {"a"}, theirsTree |-> {"x", "b"},
     from3 |-> "x"] }

\* git diff -M20% HEAD <theirs>: a rename pairs a name only HEAD has with a
\* name only the incoming tree has, both blobs having content to compare.
RenameChoices(s, oe, te) ==
  {{}} \cup { {<< o, n >>} : o \in (s.headTree \ s.theirsTree) \ oe,
                            n \in (s.theirsTree \ s.headTree) \ te }

ConflictStates ==
  UNION { UNION { { [ index       |-> s.index,
                      headTree    |-> s.headTree,
                      theirsTree  |-> s.theirsTree,
                      oursEmpty   |-> oe,     \* paths whose stage-2 blob is empty
                      stage3Empty |-> IF s.from3 \in te THEN {"a"} ELSE {},
                      theirsEmpty |-> te,     \* paths whose blob in theirs is empty
                      theirsRef   |-> ref,    \* MERGE_HEAD, CHERRY_PICK_HEAD or
                                              \* REBASE_HEAD resolves
                      renames     |-> rn,
                      \* the working-tree file of each path: "none" when
                      \* absent, "conflict" as the operation left it, "ours"
                      \* or "theirs" once a resolution wrote it
                      work        |-> [q \in ConfPaths |->
                                         IF s.index[q] \cap {0, 2, 3} # {}
                                           THEN "conflict" ELSE "none"],
                      \* the content a resolution staged at each path
                      staged      |-> [q \in ConfPaths |-> "none"] ] :
                      ref \in BOOLEAN, rn \in RenameChoices(s, oe, te) } :
                  oe \in SUBSET s.headTree, te \in SUBSET s.theirsTree } :
          s \in MergeShapes }

\* git diff --name-only --diff-filter=U
UnmergedPaths(r) == { q \in ConfPaths : r.index[q] \cap {1, 2, 3} # {} }

\* git rm -f -- q: fails when no index entry matches q
GitRmForce(r, q) ==
  IF r.index[q] = {}
    THEN Out(r, FALSE)
    ELSE Out([r EXCEPT !.index[q] = {}, !.work[q] = "none", !.staged[q] = "none"],
             TRUE)

\* The counterpart left where it is.
KeepCounterpart(r, q) == Out(r, TRUE)

\* git rm -f --ignore-unmatch -- q: as above, and no failure without a match
GitRmIgnoreUnmatch(r, q) ==
  Out([r EXCEPT !.index[q] = {}, !.work[q] = "none", !.staged[q] = "none"], TRUE)

\* git checkout --ours|--theirs -- q: fails when q lacks that stage
GitCheckoutStage(r, q, stage) ==
  IF stage \in r.index[q]
    THEN Out([r EXCEPT !.work[q] = IF stage = 2 THEN "ours" ELSE "theirs"], TRUE)
    ELSE Out(r, r.index[q] = {0})

\* git add [-A] -- q, the file being in the working tree
GitStage(r, q) == Out([r EXCEPT !.index[q] = {0}, !.staged[q] = r.work[q]], TRUE)

\* git_show_path_bytes_or_empty(repo, rev, q).is_empty(), rev one of
\* ":2", ":3" and the theirs reference
ShowIsEmpty(r, rev, q) ==
  CASE rev = ":2" -> 2 \notin r.index[q] \/ q \in r.oursEmpty
    [] rev = ":3" -> 3 \notin r.index[q] \/ q \in r.stage3Empty
    [] OTHER -> q \notin r.theirsTree \/ q \in r.theirsEmpty

detect_theirs_ref(r) == r.theirsRef

\* detect_renames_against_theirs(..).get(q): the set holding the new path
RenamesGet(r, q) ==
  IF detect_theirs_ref(r) THEN { pr[2] : pr \in { x \in r.renames : x[1] = q } } ELSE {}

\* The existence test answering yes for every path.
ExistsAlways(r, q) == TRUE

git_file_exists_at_rev(r, q) == q \in r.theirsTree

OkResult == [NoResult EXCEPT !.kind = "ok", !.status = "ok"]

\* run_git(..)? : the handler returns the error of a failed command
RunGit(t, out, how) ==
  Return(t, IF out.ok THEN OkResult ELSE Err("git command failed"), out.repo, how)

\* git_conflict_take_ours, inside the lock.
TakeOursRun(t) ==
  /\ pc[t] = "take_ours_run"
  /\ LET q == loc[t].path IN
       IF ShowIsEmpty(repo, ":2", q)
         THEN RunGit(t, GitRmForce(repo, q), "ours_removed")
         ELSE LET new == RenamesGet(repo, q)
                  rm == IF new # {} THEN GitRmForce(repo, CHOOSE n \in new : TRUE)
                                    ELSE Out(repo, TRUE)
                  co == GitCheckoutStage(rm.repo, q, 2)
              IN IF ~rm.ok THEN RunGit(t, rm, "ours_rm_failed")
                 ELSE IF ~co.ok THEN RunGit(t, co, "ours_checkout_failed")
                 ELSE RunGit(t, GitStage(co.repo, q), "ours_taken")

\* git_conflict_take_theirs, inside the lock.
TakeTheirsRun(t) ==
  /\ pc[t] = "take_theirs_run"
  /\ LET q == loc[t].path
         new == RenamesGet(repo, q)
     IN IF ~ShowIsEmpty(repo, ":3", q)
          THEN LET co == GitCheckoutStage(repo, q, 3)
               IN IF ~co.ok THEN RunGit(t, co, "theirs_checkout_failed")
                            ELSE RunGit(t, GitStage(co.repo, q), "theirs_taken")
        ELSE IF new # {}
          THEN LET n == CHOOSE m \in new : TRUE IN
                 IF ShowIsEmpty(repo, "theirs", n)
                   THEN RunGit(t, GitRmForce(repo, q), "theirs_rename_empty")
                   ELSE RunGit(t, GitRmForce(GitStage([repo EXCEPT !.work[n] = "theirs"],
                                                      n).repo, q),
                               "theirs_renamed")
        ELSE RunGit(t, GitRmForce(repo, q), "theirs_removed")

\* The UI asks to resolve one of the conflicted paths it lists.
InvokeConflict(t) ==
  /\ pc[t] \in {"idle", "ret"}
  /\ calls < MaxCalls
  /\ calls' = calls + 1
  /\ \E o \in {"take_ours", "take_theirs"}, q \in UnmergedPaths(repo) :
       /\ op' = [op EXCEPT ![t] = o]
       /\ pc' = [pc EXCEPT ![t] = Entry(o)]
       /\ loc' = [loc EXCEPT ![t] = [NoLoc EXCEPT !.path = q]]
       /\ result' = [result EXCEPT ![t] = NoResult]
  /\ UNCHANGED << repo, lock >>

InitConflict ==
  /\ repo \in ConflictStates
  /\ lock = 0
  /\ pc = [t \in Threads |-> "idle"]
  /\ op = [t \in Threads |-> "none"]
  /\ loc = [t \in Threads |-> NoLoc]
  /\ result = [t \in Threads |-> NoResult]
  /\ calls = 0

NextConflict ==
  \/ InvokeConflict(1)
  \/ WithRepoGitLock(1)
  \/ TakeOursRun(1)
  \/ TakeTheirsRun(1)

SpecConflict == InitConflict /\ [][NextConflict]_vars

\* ------------------------------------------------------------------------
\* Properties of the rebase orchestrator and the lock.
\* ------------------------------------------------------------------------

\* Thread t is executing a command that changes the repository: inside the
\* lock, or in the body of a handler that runs without it.
InFlight(t) ==
  \/ op[t] \in {"start", "continue", "apply_and_stage"} /\ lock = t
  \/ pc[t] \in {"amend_run", "abort_run", "merge_abort_run"}

\* No sentinel of a rebase: no rebase-merge directory, REBASE_HEAD unresolvable.
NoSentinel(r) == ~r.dir /\ ~r.rebaseHead

\* No rebase of either backend is under way.
NoRebase(r) == NoSentinel(r) /\ ~r.applyDir

\* Thread t has returned from command o.
Returned(t, o) == pc[t] = "ret" /\ op[t] = o

\* Thread t has returned "completed" from start or continue.
ReturnedCompleted(t) ==
  /\ pc[t] = "ret" /\ op[t] \in {"start", "continue"}
  /\ result[t].kind = "ok" /\ result[t].status = "completed"

\* Key k and stopped hash sha match as prefixes, one way or the other.
PrefixMatch(k, sha) == sha # << >> /\ (StartsWith(k, sha) \/ StartsWith(sha, k))

\* C1: at no time are two repository-changing commands (interactive rebase
\* start/continue/amend, conflict resolution, rebase or merge abort) in flight
\* on the same repository.
C1_MutuallyExclusive ==
  \A t, u \in Threads : t # u => ~(InFlight(t) /\ InFlight(u))

\* C2: after takeOurs(p) or takeTheirs(p) on a conflicted path p returns
\* success, p is not in the unmerged-path list, and when a rename target p'
\* was detected for p against the theirs reference exactly one of p and p' is
\* tracked in the index.
C2_TakeSideResolves ==
  \A t \in Threads :
    (pc[t] = "ret" /\ op[t] \in {"take_ours", "take_theirs"} /\ result[t].kind = "ok")
      => /\ loc[t].path \notin UnmergedPaths(repo)
         /\ \A n \in RenamesGet(repo, loc[t].path) :
              (repo.index[loc[t].path] # {}) # (repo.index[n] # {})

\* C3: whenever start or continue returns "completed", by whichever return
\* statement, the reword-map file does not exist.
C3_CompletedRemovesMap ==
  \A t \in Threads : ReturnedCompleted(t) => ~repo.mapFile.exists

\* C4: after a successful abort of the rebase the reword-map file is deleted.
C4_AbortRemovesMap ==
  \A t \in Threads :
    Returned(t, "rebase_abort") /\ result[t].kind = "ok" => ~repo.mapFile.exists

\* C5: when the native rebase of start exits non-zero and leaves no rebase
\* behind (invalid base), start returns an error, not "completed", and leaves
\* no reword map.
C5_FailedStartIsError ==
  \A t \in Threads :
    Returned(t, "start") /\ loc[t].exit = "start_state" /\ NoSentinel(repo)
      => result[t].kind = "err" /\ ~repo.mapFile.exists

\* C6: start (with entries) while a rebase is active, that is with the
\* rebase-merge directory present or REBASE_HEAD resolvable, returns the
\* already-in-progress error and leaves the repository, the rebase and the
\* reword map as they were.
C6_StartRefusedWhileActive ==
  [][\A t \in Threads :
       (pc[t] = "start_check" /\ pc'[t] # pc[t] /\ loc[t].sel # {}
          /\ ~NoSentinel(repo))
         => /\ pc'[t] = "ret"
            /\ result'[t] = Err("A rebase is already in progress.")
            /\ repo' = repo]_vars

\* C7: continue and amend, called when no rebase is active, return an error
\* (continue in particular never reports "completed").
C7_NothingToContinueIsError ==
  [][\A t \in Threads :
       (pc[t] \in {"continue_run", "amend_check"} /\ pc'[t] # pc[t]
          /\ NoRebase(repo))
         => pc'[t] = "ret" /\ result'[t].kind = "err"]_vars

\* C8: start and continue return "completed" only when no sentinel is
\* present: rebase-merge absent and REBASE_HEAD not resolvable.
C8_CompletedOnlyWithoutSentinel ==
  \A t \in Threads : ReturnedCompleted(t) => NoSentinel(repo)

\* C9: in the auto-continue loop, a stop whose hash matches no key of the
\* reword map (or a stop without hash) ends the call: no amend, no continue,
\* the live state is returned; and the loop amends HEAD only at commits that
\* have an entry in the map, never at one the user asked to edit by hand.
C9_ManualEditLeftAlone ==
  /\ [][\A t \in Threads :
          (pc[t] = "loop_top" /\ pc'[t] # pc[t] /\ rebase_merge_dir(repo)
             /\ \A e \in loc[t].lmap : ~PrefixMatch(e.key, read_stopped_sha(repo)))
            => /\ pc'[t] = "ret"
               /\ repo' = repo
               /\ loc'[t].amended = loc[t].amended
               /\ result'[t] = detect_rebase_state(repo)]_vars
  /\ [](\A t \in Threads : \A a \in loc[t].amended :
          \E e \in loc[t].lmap : Resolve(e.key) = a.src)

\* Reached for C9: a call that amended one commit automatically and then
\* returned at a stop the map has no entry for.
C9_Witness ==
  /\ pc[1] = "ret" /\ loc[1].exit = "loop_no_match"
  /\ result[1].status = "stopped_at_edit" /\ result[1].hash # << >>
  /\ loc[1].amended # {}

\* C10: an explicit continue never returns "stopped_at_edit" for a stopped
\* commit whose hash prefix-matches a key of the reword map.
C10_ContinueNeverStopsAtReword ==
  \A t \in Threads :
    (Returned(t, "continue") /\ result[t].kind = "ok"
       /\ result[t].status = "stopped_at_edit")
      => \A e \in load_reword_map(repo) : ~PrefixMatch(e.key, result[t].hash)

\* Reached for C10: continue amended a reworded commit on its way and came
\* back at a later stop, with entries in the map none of which matches it.
C10_Witness ==
  /\ Returned(1, "continue") /\ result[1].status = "stopped_at_edit"
  /\ result[1].hash # << >> /\ load_reword_map(repo) # {}


\* ------------------------------------------------------------------------
\* The reword-map file on its own: process 1 builds and saves the map of a
\* start, process 2 (started afterwards, in the middle of the rebase) loads
\* the file and looks up the hash the sequencer stopped at.
\* ------------------------------------------------------------------------

\* git_interactive_rebase_start up to save_reword_map.
MapSave(t) ==
  /\ pc[t] = "idle"
  /\ \E S \in (SUBSET Commits) \ {{}} :
       \E acc \in TodoBuilds[S] :
         /\ acc.lines # << >>
         /\ Goto(t, "saved", save_reword_map(repo, acc.rmap),
                 [loc[t] EXCEPT !.sel = S, !.lines = acc.lines, !.rmap = acc.rmap])

\* auto_amend_reword_loop in another process: load_reword_map.
MapLoad(t) ==
  /\ pc[t] = "idle"
  /\ \E w \in Threads \ {t} : pc[w] = "saved"
  /\ Goto(t, "loaded", repo, [loc[t] EXCEPT !.lmap = load_reword_map(repo)])

\* The lookup of the loop, for the name git recorded in stopped-sha.
MapFind(t) ==
  /\ pc[t] = "loaded"
  /\ \E c \in Commits, short \in BOOLEAN :
       LET sha == GitAbbrev(c, short)
           found == RewordMatches(loc[t].lmap, sha)
       IN /\ result' = [result EXCEPT ![t] = [NoResult EXCEPT !.hash = sha]]
          /\ \/ found = {} /\ loc' = [loc EXCEPT ![t] = [@ EXCEPT !.cur = << >>]]
             \/ \E e \in found : loc' = [loc EXCEPT ![t] = [@ EXCEPT !.cur = << e >>]]
  /\ pc' = [pc EXCEPT ![t] = "found"]
  /\ UNCHANGED << repo, lock, op, calls >>

NextMap == MapSave(1) \/ MapLoad(2) \/ MapFind(2)

SpecMap == Init /\ [][NextMap]_vars

QueryStates ==
  { k[1] @@ [applying |-> k[2], rebaseHead |-> k[3], mergeHead |-> k[4],
             cherryHead |-> k[5], binary |-> k[6],
             statusCall |-> k[7], lsCall |-> k[8], binaryAt |-> k[9]] :
      k \in { c \in ConflictStates \X BOOLEAN \X BOOLEAN \X BOOLEAN \X BOOLEAN
                       \X BOOLEAN \X {"ok", "exit", "nospawn"}
                       \X {"ok", "exit", "nospawn"}
                       \X {"base", "ours", "theirs", "working", "target"} :
                /\ c[1].theirsRef = (c[3] \/ c[4] \/ c[5])
                /\ ~c[6] => c[9] = "base"
                \* one trouble at a time: a NUL byte, or a failing sub-call
                /\ c[6] => (c[7] = "ok" /\ c[8] = "ok") } }

\* rebase-apply/applying exists
is_am_in_progress(r) == r.applying

\* CHERRY_PICK_HEAD resolves
is_cherry_pick_in_progress(r) == r.cherryHead

\* The sentinels looked at in the order merge, cherry-pick, am, rebase.
OperationMergeFirst(r) ==
  IF is_merge_in_progress(r) THEN "merge"
  ELSE IF is_cherry_pick_in_progress(r) THEN "cherry-pick"
  ELSE IF is_am_in_progress(r) THEN "am"
  ELSE IF is_rebase_in_progress(r) THEN "rebase"
  ELSE ""

\* git_conflict_state: `let operation = if am_in_progress { .. }`
ConflictOperation(r) ==
  IF is_am_in_progress(r) THEN "am"
  ELSE IF is_rebase_in_progress(r) THEN "rebase"
  ELSE IF is_merge_in_progress(r) THEN "merge"
  ELSE IF is_cherry_pick_in_progress(r) THEN "cherry-pick"
  ELSE ""

\* list_unmerged_files: the lines of the diff, sorted, without duplicates
UnmergedFiles(r) == SelectSeq(<< "a", "b", "x" >>, LAMBDA q : q \in UnmergedPaths(r))

\* git status --porcelain: the XY code of an unmerged path
StatusCode(stages) ==
  CASE stages = {1, 2, 3} -> "UU"
    [] stages = {1, 2} -> "UD"
    [] stages = {1, 3} -> "DU"
    [] stages = {2, 3} -> "AA"
    [] stages = {2} -> "AU"
    [] stages = {3} -> "UA"
    [] OTHER -> "DD"

\* The orders in which a HashSet may hand out its elements.
IterOrders(S) ==
  { v \in [1..Cardinality(S) -> S] : \A i, j \in 1..Cardinality(S) : v[i] = v[j] => i = j }

\* The stage list left in the order the set handed it out.
Unsorted(v) == v

\* parse_ls_files_unmerged_z: `v.sort()`
SortStages(v) == SortSeq(v, LAMBDA x, y : x < y)

\* The entry git_conflict_state may push for path q: the status code and the
\* stage list of the two sub-calls, "U" and the empty list in place of the
\* answer of a sub-call that exited non-zero.
FileEntries(r, q) ==
  { [status |-> IF r.statusCall = "ok" THEN StatusCode(r.index[q]) ELSE "U",
     path   |-> q,
     stages |-> IF r.lsCall = "ok" THEN SortStages(v) ELSE << >>] :
      v \in IterOrders(r.index[q] \cap {1, 2, 3}) }

\* git_conflict_state, inside the lock.
ConflictStateRun(t) ==
  /\ pc[t] = "state_run"
  /\ LET files == UnmergedFiles(repo)
         in_progress == is_merge_in_progress(repo) \/ is_rebase_in_progress(repo)
                          \/ is_cherry_pick_in_progress(repo) \/ is_am_in_progress(repo)
     IN IF repo.statusCall = "nospawn"
          THEN Return(t, Err("Failed to spawn git status"), repo, "status_spawn")
        ELSE IF repo.lsCall = "nospawn"
          THEN Return(t, Err("Failed to spawn git ls-files"), repo, "ls_spawn")
        ELSE \E entries \in [1..Len(files) ->
                               UNION { FileEntries(repo, q) : q \in ConfPaths }] :
          /\ \A i \in 1..Len(files) : entries[i] \in FileEntries(repo, files[i])
          /\ Return(t, [kind |-> "state", in_progress |-> in_progress,
                        operation |-> ConflictOperation(repo), files |-> entries],
                    repo, "state")

\* The conversion failing for the stages and the rename target only.
WorkingNeverChecked(r, which) ==
  r.binary /\ r.binaryAt = which /\ which # "working"

\* bytes_to_text_or_err(..) is Err: the bytes of content `which` hold a NUL
bytes_to_text_or_err(r, which) == r.binary /\ r.binaryAt = which

\* The test before the last override left out.
NeverForced(kind, ours_missing, theirs_missing) == FALSE

\* `conflict_kind != "rename" && (stage_ours_missing ^ stage_theirs_missing)`
OneSideMissing(kind, ours_missing, theirs_missing) ==
  kind # "rename" /\ (ours_missing # theirs_missing)

\* git_conflict_file_versions, inside the lock; the working-tree file of an
\* unmerged path is there and readable.
FileVersionsRun(t) ==
  /\ pc[t] = "versions_run"
  /\ LET q == loc[t].path
         \* a content that is not empty goes through bytes_to_text_or_err
         BinaryErr(rev, p, which) ==
           ~ShowIsEmpty(repo, rev, p) /\ bytes_to_text_or_err(repo, which)
         oursNone == ShowIsEmpty(repo, ":2", q)
         theirsNone == ShowIsEmpty(repo, ":3", q)
         \* ours.is_none() && !git_file_exists_at_rev(repo, "HEAD", q)
         ours_deleted0 == oursNone /\ q \notin repo.headTree
         new == IF theirsNone THEN RenamesGet(repo, q) ELSE {}
         n == CHOOSE m \in new : TRUE
         rename == new # {} /\ ~ShowIsEmpty(repo, "theirs", n)
         theirs_deleted1 ==
           IF ~theirsNone THEN FALSE
           ELSE IF ~detect_theirs_ref(repo) THEN TRUE
           ELSE IF rename THEN FALSE
           ELSE ~git_file_exists_at_rev(repo, q)
         kind1 ==
           IF theirsNone /\ detect_theirs_ref(repo)
             THEN IF rename THEN "rename"
                  ELSE IF theirs_deleted1 THEN "modify_delete" ELSE "text"
             ELSE "text"
         stage_theirs_missing == theirsNone /\ ~rename
         force == OneSideMissing(kind1, oursNone, stage_theirs_missing)
         ours_deleted == IF force THEN oursNone ELSE ours_deleted0
         theirs_deleted == IF force THEN stage_theirs_missing ELSE theirs_deleted1
         kind == IF ours_deleted \/ force THEN "modify_delete" ELSE kind1
     IN IF (1 \in repo.index[q] /\ bytes_to_text_or_err(repo, "base"))
           \/ BinaryErr(":2", q, "ours") \/ BinaryErr(":3", q, "theirs")
           \/ bytes_to_text_or_err(repo, "working")
           \/ (rename /\ BinaryErr("theirs", n, "target"))
          THEN Return(t, Err("Binary file preview is not supported."), repo,
                      "versions_binary")
          ELSE Return(t, [kind |-> "versions", ours_deleted |-> ours_deleted,
                          theirs_deleted |-> theirs_deleted, conflict_kind |-> kind,
                          theirs_path |-> IF rename THEN n ELSE None],
                      repo, "versions")

\* git_conflict_resolve_rename, inside the lock.
ResolveRenameRun(t) ==
  /\ pc[t] = "resolve_run"
  /\ LET ours_path == loc[t].path
         keep_name == loc[t].keep[1]
         keep_content == loc[t].keep[2]
         new == RenamesGet(repo, ours_path)
         theirs_path == CHOOSE n \in new : TRUE
         fromStage3 == ~ShowIsEmpty(repo, ":3", ours_path)
         empty == IF keep_content = "ours" THEN ShowIsEmpty(repo, ":2", ours_path)
                  ELSE ~fromStage3 /\ ShowIsEmpty(repo, "theirs", theirs_path)
         which == IF keep_content = "ours" THEN "ours"
                  ELSE IF fromStage3 THEN "theirs" ELSE "target"
         final_path == IF keep_name = "ours" THEN ours_path ELSE theirs_path
         remove_path == IF final_path = ours_path THEN theirs_path ELSE ours_path
         written == [repo EXCEPT !.work[final_path] = keep_content]
     IN IF ~detect_theirs_ref(repo)
          THEN Return(t, Err("Failed to detect their ref (MERGE_HEAD/REBASE_HEAD)."),
                      repo, "rename_no_ref")
        ELSE IF new = {}
          THEN Return(t, Err("Failed to detect rename target for this conflict."),
                      repo, "rename_no_target")
        ELSE IF empty
          THEN Return(t, Err("Failed to load selected content for rename conflict."),
                      repo, "rename_no_content")
        ELSE IF bytes_to_text_or_err(repo, which)
          THEN Return(t, Err("Binary file preview is not supported."), repo,
                      "rename_binary")
        ELSE RunGit(t, GitRmIgnoreUnmatch(GitStage(written, final_path).repo,
                                          remove_path),
                    "rename_resolved")

\* git_continue_info (no lock): the operation whose message is to be edited,
\* the sentinels looked at in the order merge, cherry-pick, am, rebase.
ContinueInfoRun(t) ==
  /\ pc[t] = "info_run"
  /\ LET merge == is_merge_in_progress(repo)
         rebase == is_rebase_in_progress(repo)
         cherry == is_cherry_pick_in_progress(repo)
         am == is_am_in_progress(repo)
         operation == IF merge THEN "merge"
                      ELSE IF cherry THEN "cherry-pick"
                      ELSE IF am THEN "am"
                      ELSE "rebase"
     IN IF ~merge /\ ~rebase /\ ~cherry /\ ~am
          THEN Return(t, Err("No merge/rebase/cherry-pick/am in progress."), repo,
                      "info_none")
          ELSE Return(t, [kind |-> "info", operation |-> operation], repo, "info")

\* The UI asks for the conflict state, or for the versions of a listed path,
\* or resolves one; git_conflict_resolve_rename checks keep_name and
\* keep_content before it asks for the lock.
InvokeQuery(t) ==
  /\ pc[t] \in {"idle", "ret"}
  /\ calls < MaxCalls
  /\ calls' = calls + 1
  /\ \E o \in {"conflict_state", "file_versions", "take_ours", "take_theirs",
                "resolve_rename", "continue_info"},
        q \in ConfPaths,
        keep \in ({"ours", "theirs"} \X {"ours", "theirs"})
                   \cup {<< "both", "ours" >>, << "ours", "base" >>} :
       /\ IF o \in {"conflict_state", "continue_info"}
            THEN q = "a" ELSE q \in UnmergedPaths(repo)
       /\ o # "resolve_rename" => keep = << "ours", "ours" >>
       /\ op' = [op EXCEPT ![t] = o]
       /\ loc' = [loc EXCEPT ![t] = [NoLoc EXCEPT !.path = q, !.keep = keep,
                                                  !.shown = << result[t] >>]]
       /\ IF keep[1] \notin {"ours", "theirs"}
            THEN /\ pc' = [pc EXCEPT ![t] = "ret"]
                 /\ result' = [result EXCEPT
                                 ![t] = Err("keep_name must be 'ours' or 'theirs'")]
          ELSE IF keep[2] \notin {"ours", "theirs"}
            THEN /\ pc' = [pc EXCEPT ![t] = "ret"]
                 /\ result' = [result EXCEPT
                                 ![t] = Err("keep_content must be 'ours' or 'theirs'")]
          ELSE /\ pc' = [pc EXCEPT ![t] = Entry(o)]
               /\ result' = [result EXCEPT ![t] = NoResult]
  /\ UNCHANGED << repo, lock >>

InitQuery ==
  /\ repo \in QueryStates
  /\ lock = 0
  /\ pc = [t \in Threads |-> "idle"]
  /\ op = [t \in Threads |-> "none"]
  /\ loc = [t \in Threads |-> NoLoc]
  /\ result = [t \in Threads |-> NoResult]
  /\ calls = MaxCalls - 2

NextQuery ==
  \/ InvokeQuery(1)
  \/ WithRepoGitLock(1)
  \/ ConflictStateRun(1)
  \/ FileVersionsRun(1)
  \/ TakeOursRun(1)
  \/ TakeTheirsRun(1)
  \/ ResolveRenameRun(1)
  \/ ContinueInfoRun(1)

SpecQuery == InitQuery /\ [][NextQuery]_vars

\* C12: whatever the sentinels, getConflictState reports one operation, the
\* first present of mailbox apply, rebase, merge, cherry-pick (none when all
\* are absent), and in_progress is true exactly when an operation is reported.
C12_SentinelPriority ==
  \A t \in Threads :
    (Returned(t, "conflict_state") /\ result[t].kind = "state") =>
      LET o == result[t].operation IN
        /\ o \in {"am", "rebase", "merge", "cherry-pick", ""}
        /\ (repo.applying => o = "am")
        /\ (~repo.applying /\ repo.rebaseHead => o = "rebase")
        /\ (~repo.applying /\ ~repo.rebaseHead /\ repo.mergeHead => o = "merge")
        /\ (~repo.applying /\ ~repo.rebaseHead /\ ~repo.mergeHead /\ repo.cherryHead
              => o = "cherry-pick")
        /\ (o = "" <=> ~(repo.applying \/ repo.rebaseHead \/ repo.mergeHead
                          \/ repo.cherryHead))
        /\ (result[t].in_progress <=> o # "")

\* Reached for C12: all four sentinels present, mailbox apply reported.
C12_Witness ==
  /\ Returned(1, "conflict_state") /\ result[1].kind = "state"
  /\ repo.applying /\ repo.rebaseHead /\ repo.mergeHead /\ repo.cherryHead
  /\ result[1].operation = "am" /\ result[1].in_progress

\* C13: getConflictState changes nothing in the repository, and a call that
\* follows another getConflictState with no call in between returns the same
\* answer: operation, in_progress and the file list, entry by entry, with the
\* same status codes and stage lists.
C13_ConflictStateIsPure ==
  /\ [][\A t \in Threads : pc[t] = "state_run" => repo' = repo]_vars
  /\ [](\A t \in Threads :
          Returned(t, "conflict_state") /\ loc[t].shown # << >>
            /\ loc[t].shown[1].kind = "state"
          => result[t] = loc[t].shown[1])

\* Reached for C13: the second of two calls in a row has returned, listing a
\* path with all three stages.
C13_Witness ==
  /\ Returned(1, "conflict_state")
  /\ loc[1].shown # << >> /\ loc[1].shown[1].kind = "state"
  /\ result[1] = loc[1].shown[1]
  /\ result[1].kind = "state"
  /\ \E i \in 1..Len(result[1].files) : result[1].files[i].stages = << 1, 2, 3 >>

\* The path asked about has stage 2 and no stage 3 and is absent from the
\* tree of the theirs reference: modified here, deleted by the incoming side.
ModifiedHereDeletedThere(t) ==
  /\ Returned(t, "file_versions")
  /\ 2 \in repo.index[loc[t].path]
  /\ 3 \notin repo.index[loc[t].path]
  /\ detect_theirs_ref(repo)
  /\ loc[t].path \notin repo.theirsTree

ReportsModifyDelete(t) ==
  /\ result[t].kind = "versions"
  /\ result[t].conflict_kind = "modify_delete"
  /\ result[t].theirs_deleted
  /\ ~result[t].ours_deleted

\* C14 as stated: getConflictFileVersions for a path modified locally (stage
\* 2 present) and deleted on the incoming side (no stage 3, absent under the
\* theirs reference) reports modify_delete, theirs_deleted and not
\* ours_deleted.
C14_ModifyDeleteReported ==
  \A t \in Threads : ModifiedHereDeletedThere(t) => ReportsModifyDelete(t)

\* C14 amended: the same, for a file without NUL bytes that the rename
\* detection against the theirs reference pairs with no path of that side.
C14_ModifyDeleteUnlessRenamed ==
  \A t \in Threads :
    ModifiedHereDeletedThere(t) /\ ~repo.binary /\ RenamesGet(repo, loc[t].path) = {}
      => ReportsModifyDelete(t)

\* Reached for C14: the incoming side has another file, no rename is paired,
\* and modify_delete is reported.
C14_Witness ==
  /\ ModifiedHereDeletedThere(1) /\ ~repo.binary
  /\ RenamesGet(repo, loc[1].path) = {}
  /\ "b" \in repo.theirsTree
  /\ ReportsModifyDelete(1)

\* ------------------------------------------------------------------------
\* git_status: the parse of the NUL-delimited porcelain stream and the
\* reconciliation of unstaged renames.  The repository is here the stream
\* `git status` prints (a sequence of tokens) and the blob name of each path's
\* content.  A token is [code, path]: a record "XY path", or with code << >>
\* a bare path (the second token of a rename record).
\* ------------------------------------------------------------------------

\* The streams over the paths a, b and d.  For one path git prints nothing,
\* a record, or a rename record followed by the previous path "o"; beyond what
\* git prints, a rename record may have an empty, blank or missing second token.
StatusStreams ==
  LET StatusItems(q) ==
        { << >> }
        \cup { << [code |-> c, path |-> q] >> :
                 c \in { << " ", "D" >>, << "?", "?" >>, << "A", " " >>, << " ", "M" >>,
                         << "A", "D" >> } }
        \cup { << [code |-> << "R", " " >>, path |-> q] >> \o second :
                 second \in { << [code |-> << >>, path |-> o] >> : o \in {"o", "", " "} }
                            \cup { << >> } }
  IN { it[1] \o it[2] \o it[3] :
         it \in StatusItems("a") \X StatusItems("b") \X StatusItems("d") }

\* The loop with one token per record whatever the status: the token after a
\* rename record is read as a record of its own.
RECURSIVE ParseOneTokenEach(_)
ParseOneTokenEach(b) ==
  IF b = << >> THEN << >>
  ELSE (IF Head(b).code = << >>
          THEN << >>
          ELSE << [status |-> Head(b).code, path |-> Head(b).path, old_path |-> None] >>)
       \o ParseOneTokenEach(Tail(b))

\* git_status: the loop over the records of the stream b.
RECURSIVE ParseStatus(_)
ParseStatus(b) ==
  IF b = << >> THEN << >>
  ELSE LET rec == Head(b)
           TrimEmpty(x) == x \in {"", " "}
           has_rename == rec.code # << >> /\ {rec.code[1], rec.code[2]} \cap {"R", "C"} # {}
           next == Tail(b)
           \* the text of the token that follows, "" at the end of the stream
           second_path == IF next = << >> THEN ""
                          ELSE IF Head(next).code = << >> THEN Head(next).path
                          ELSE "record"
       IN IF rec.code = << >>
            THEN ParseStatus(next)      \* shorter than "XY p", or no path
          ELSE IF has_rename
            THEN (IF ~TrimEmpty(rec.path)
                    THEN << [status |-> rec.code, path |-> rec.path,
                             old_path |-> IF ~TrimEmpty(second_path) THEN second_path
                                                                      ELSE None] >>
                  ELSE IF ~TrimEmpty(second_path)
                    THEN << [status |-> rec.code, path |-> second_path, old_path |-> None] >>
                  ELSE << >>)
                 \o ParseStatus(IF next = << >> THEN << >> ELSE Tail(next))
          ELSE (IF ~TrimEmpty(rec.path)
                  THEN << [status |-> rec.code, path |-> rec.path, old_path |-> None] >>
                  ELSE << >>)
               \o ParseStatus(next)

\* detect_unstaged_renames: is entry e collected in del_indices / add_indices
IsDel(e) == {e.status[1], e.status[2]} \cap {"R", "C"} = {} /\ "D" \in {e.status[1], e.status[2]}

IsAdd(e) ==
  /\ {e.status[1], e.status[2]} \cap {"R", "C"} = {}
  /\ (e.status = << "?", "?" >> \/ "A" \in {e.status[1], e.status[2]})

\* git ls-tree HEAD -- <paths>: the blob of entry e in HEAD (0: no line)
HeadHash(r, e) == IF e.status = << "A", "D" >> THEN 0 ELSE r.blob[e.path]

\* git hash-object -- <paths>: the blob name of the working-tree file of
\* entry e; the command fails as a whole when one of the files is missing.
WorkHash(r, entries, e) ==
  IF \E k \in 1..Len(entries) : IsAdd(entries[k]) /\ entries[k].status[2] = "D"
    THEN 0
    ELSE r.blob[e.path]

\* detect_unstaged_renames: the rename_pairs the two loops over the hash maps
\* can build, as sets of << add_idx, del_idx >>.  hash_to_del keeps the first
\* deletion iterated for a hash, the match loop the first addition.
RenamePairs(r, entries) ==
  LET del == { k \in 1..Len(entries) : IsDel(entries[k]) /\ HeadHash(r, entries[k]) # 0 }
      add == { k \in 1..Len(entries) :
                 IsAdd(entries[k]) /\ WorkHash(r, entries, entries[k]) # 0 }
      hashes == { HeadHash(r, entries[k]) : k \in del }
                  \cap { WorkHash(r, entries, entries[k]) : k \in add }
  IN { { f[h] : h \in hashes } :
         f \in { g \in [hashes -> add \X del] :
                   \A h \in hashes : /\ WorkHash(r, entries, entries[g[h][1]]) = h
                                     /\ HeadHash(r, entries[g[h][2]]) = h } }

\* The additions of the pairs become renames and every entry stays.
ApplyRenamesKeepingAll(entries, pairs) ==
  [k \in 1..Len(entries) |->
     IF \E pr \in pairs : pr[1] = k
       THEN [status |-> << "R", " " >>, path |-> entries[k].path,
             old_path |-> entries[(CHOOSE pr \in pairs : pr[1] = k)[2]].path]
       ELSE entries[k]]

\* detect_unstaged_renames: the additions of the pairs become renames, the
\* matched deletions are removed.
ApplyRenames(entries, pairs) ==
  LET renamed == [k \in 1..Len(entries) |->
                    IF \E pr \in pairs : pr[1] = k
                      THEN [status |-> << "R", " " >>, path |-> entries[k].path,
                            old_path |-> entries[(CHOOSE pr \in pairs : pr[1] = k)[2]].path]
                      ELSE entries[k]]
      kept == { k \in 1..Len(entries) : \A pr \in pairs : pr[2] # k }
      pos(n) == CHOOSE k \in kept : Cardinality({ j \in kept : j < k }) = n - 1
  IN [n \in 1..Cardinality(kept) |-> renamed[pos(n)]]

\* git_status
GitStatusRun(t) ==
  /\ pc[t] = "idle"
  /\ LET entries == ParseStatus(repo.tokens) IN
       \E pairs \in RenamePairs(repo, entries) :
         Return(t, [kind |-> "status", files |-> ApplyRenames(entries, pairs)],
                repo, "status")

InitStatus ==
  /\ repo \in [tokens : StatusStreams, blob : [{"a", "b", "d"} -> {1, 2}]]
  /\ lock = 0
  /\ pc = [t \in Threads |-> "idle"]
  /\ op = [t \in Threads |-> "none"]
  /\ loc = [t \in Threads |-> NoLoc]
  /\ result = [t \in Threads |-> NoResult]
  /\ calls = 0

NextStatus == GitStatusRun(1)

SpecStatus == InitStatus /\ [][NextStatus]_vars

\* C15: when the parsed status list holds a deletion entry for d and an added
\* or untracked entry for a whose working-tree content hash equals the
\* committed blob hash of d, the list getStatus returns holds exactly one entry
\* for the two paths, the rename entry with path a and old_path d, and no
\* deletion entry for d.
C15_DeleteAddBecomesRename ==
  pc[1] = "ret" =>
    LET entries == ParseStatus(repo.tokens)
        final == result[1].files
    IN \A i, j \in 1..Len(entries) :
         /\ IsDel(entries[i]) /\ IsAdd(entries[j])
         /\ HeadHash(repo, entries[i]) # 0
         /\ entries[j].status[2] # "D"
         /\ repo.blob[entries[j].path] = HeadHash(repo, entries[i])
         => /\ \A k \in 1..Len(final) :
                 final[k].path \in {entries[i].path, entries[j].path}
                   => final[k] = [status |-> << "R", " " >>, path |-> entries[j].path,
                                  old_path |-> entries[i].path]
            /\ Cardinality({ k \in 1..Len(final) : final[k].path = entries[j].path }) = 1

\* C16: in the list getStatus returns, every entry whose status code contains
\* R or C has an old_path, whatever the stream (a rename record whose second
\* token is missing or blank included).
C16_RenameHasOldPath ==
  pc[1] = "ret" =>
    \A k \in 1..Len(result[1].files) :
      {result[1].files[k].status[1], result[1].files[k].status[2]} \cap {"R", "C"} # {}
        => result[1].files[k].old_path # None

\* ------------------------------------------------------------------------
\* The translation of the plan on its own: the loop of
\* git_interactive_rebase_start over the entries the client sent.
\* ------------------------------------------------------------------------

\* The plans a client sends: some of the listed commits, each once, in the
\* order the user arranged them, every hash as listed (full, or abbreviated
\* throughout), the action in one of the spellings clients use; and the
\* plans of one entry whose hash is blank.
TodoPlans ==
  { << [action |-> a, hash |-> << >>, new_message |-> None, new_author |-> None] >> :
      a \in Actions }
  \cup
  UNION { { [k \in 1..Len(order) |->
               [action |-> f[k].action, hash |-> GitAbbrev(order[k], short),
                new_message |-> f[k].new_message, new_author |-> f[k].new_author]] :
              f \in [1..Len(order) -> [action : Actions \cup {"Drop", " pick "},
                                       new_message : Msgs, new_author : Authors]] } :
            order \in { o \in UNION { [1..n -> Commits] : n \in 1..NumCommits } :
                          \A i, j \in 1..Len(o) : o[i] = o[j] => i = j },
            short \in BOOLEAN }

\* git_interactive_rebase_start: the loop over todo_entries, then the reset
\* when no line is left, else save_reword_map.
TodoBuildRun(t) ==
  /\ pc[t] = "start_build"
  /\ LET acc == BuildTodo(loc[t].entries, [lines |-> << >>, rmap |-> {}])
     IN Goto(t, IF acc.lines = << >> THEN "start_reset" ELSE "start_rebase",
             IF acc.lines = << >> THEN repo ELSE save_reword_map(repo, acc.rmap),
             [loc[t] EXCEPT !.lines = acc.lines, !.rmap = acc.rmap])

InitTodo ==
  /\ repo = InitRepo
  /\ lock = 1
  /\ pc = [t \in Threads |-> IF t = 1 THEN "start_build" ELSE "idle"]
  /\ op = [t \in Threads |-> IF t = 1 THEN "start" ELSE "none"]
  /\ loc \in { [t \in Threads |-> IF t = 1 THEN [NoLoc EXCEPT !.entries = plan]
                                           ELSE NoLoc] : plan \in TodoPlans }
  /\ result = [t \in Threads |-> NoResult]
  /\ calls = 1

NextTodo == TodoBuildRun(1)

SpecTodo == InitTodo /\ [][NextTodo]_vars

BranchTip(r) == IF r.dir \/ r.applyDir THEN r.orig ELSE r.branch

\* C18: with every entry dropped, start runs no native rebase and writes no
\* reword map; it resets the branch tip to the base and returns "completed",
\* or returns an error with the repository unchanged when the reset fails.
C18_AllDroppedResets ==
  [][\A t \in Threads :
       pc[t] = "start_reset" =>
         \/ /\ result'[t] = Completed
            /\ BranchTip(repo') = << >>
            /\ repo'.mapFile = repo.mapFile
            /\ repo'.dir = repo.dir /\ repo'.applyDir = repo.applyDir
            /\ repo'.rebaseHead = repo.rebaseHead /\ repo'.todo = repo.todo
         \/ /\ result'[t].kind = "err"
            /\ repo' = repo]_vars

\* ------------------------------------------------------------------------
\* Patches: git_apply_patch_file, git_predict_patch_file and
\* git_predict_patch_graph, over repositories with an operation under way.
\* ------------------------------------------------------------------------

\* The repositories a patch command may meet: idle, or stopped inside a
\* merge-backend rebase (rebase-merge), an apply-backend rebase or a
\* mailbox-apply (both rebase-apply), with or without conflicts, the working
\* tree clean or locally modified.
PatchStates ==
  { [dirty |-> s.dirty, applying |-> s.applying] @@
    [InitRepo EXCEPT !.dir = s.dir, !.applyDir = s.applyDir,
                     !.orig = IF s.dir \/ s.applyDir THEN InitRepo.branch ELSE << >>,
                     !.rebaseHead = s.conflicted /\ ~s.applying,
                     !.unmerged = IF s.conflicted THEN Paths ELSE {}] :
    s \in { x \in [dir : BOOLEAN, applyDir : BOOLEAN, applying : BOOLEAN,
                   conflicted : BOOLEAN, dirty : BOOLEAN] :
              /\ ~(x.dir /\ x.applyDir)
              /\ x.applying => x.applyDir
              /\ x.conflicted => (x.dir \/ x.applyDir) } }

\* Patch files: one or two hunks, each naming a path and the content it
\* expects there (0: the committed content, 1: the locally modified one).
PatchTexts ==
  LET Hunks == [path : {"f", "g"}, base : {0, 1}]
  IN { << h >> : h \in Hunks } \cup
     { << h, k >> : h \in Hunks, k \in {[path |-> "f", base |-> 0]} }

\* The paths of the "diff --git" headers, in order, each once.
RECURSIVE parse_touched_files_from_patch_text(_)
parse_touched_files_from_patch_text(text) ==
  IF text = << >> THEN << >>
  ELSE LET n == Len(text)
           files == parse_touched_files_from_patch_text(SubSeq(text, 1, n - 1))
       IN IF \E i \in 1..Len(files) : files[i] = text[n].path
            THEN files
            ELSE Append(files, text[n].path)

\* Every hunk of the patch finds the content it expects.
PatchFits(r, text) ==
  \A i \in 1..Len(text) : text[i].base = (IF r.dirty THEN 1 ELSE 0)

\* git apply -- <patch>: all hunks land in the working tree, or none does.
GitApply(r, text) ==
  IF PatchFits(r, text) THEN Out([r EXCEPT !.dirty = TRUE], TRUE) ELSE Out(r, FALSE)

\* The patch applied for real where it should only be tested.
ApplyInsteadOfCheck(r, text) == GitApply(r, text)

\* git apply --check -- - : the same test, nothing written.
GitApplyCheck(r, text) == Out(r, PatchFits(r, text))

\* git am -3 -- <patch>: refuses when rebase-apply exists; otherwise it sets
\* up rebase-apply and either commits the patch on HEAD and removes the
\* directory again, or stops with the directory left behind (an index with
\* changes, or a patch whose three-way fallback ends in conflicts).
GitAm(r, text) ==
  IF r.applyDir THEN Out(r, FALSE)
  ELSE IF r.unmerged # {}
    THEN Out([r EXCEPT !.applyDir = TRUE, !.applying = TRUE], FALSE)
  ELSE IF PatchFits(r, text)
    THEN Out([r EXCEPT !.branch = Append(@, [src |-> 0, msg |-> "patch",
                                             author |-> "dev"])], TRUE)
  ELSE Out([r EXCEPT !.applyDir = TRUE, !.applying = TRUE, !.unmerged = Paths],
           FALSE)

\* The file commands offered at an edit-stop, none taking the lock.
FileOps == {"edit_files", "read_file", "write_file", "rename_file",
            "delete_file", "restore_file"}

\* The UI invokes a patch command, which checks patch_path and method before
\* it asks for the lock, or one of the file commands.
InvokePatch(t) ==
  /\ pc[t] \in {"idle", "ret"}
  /\ calls < MaxCalls
  /\ calls' = calls + 1
  /\ \E o \in {"apply_patch", "predict_patch", "predict_graph"} \cup FileOps,
        patch_path \in {" ", "p"},
        method \in {"apply", "am", " AM ", "mbox"},
        text \in PatchTexts :
       /\ o \in FileOps =>
            (patch_path = "p" /\ method = "apply"
               /\ text = << [path |-> "f", base |-> 0] >>)
       /\ op' = [op EXCEPT ![t] = o]
       /\ loc' = [loc EXCEPT ![t] = [NoLoc EXCEPT !.path = patch_path,
                                                  !.patch = text,
                                                  !.method = TrimLower(method)]]
       /\ IF o \in FileOps
            THEN /\ pc' = [pc EXCEPT ![t] = "file_run"]
                 /\ result' = [result EXCEPT ![t] = NoResult]
          ELSE IF Blank(patch_path)
            THEN /\ pc' = [pc EXCEPT ![t] = "ret"]
                 /\ result' = [result EXCEPT ![t] = Err("patch_path is empty")]
          ELSE IF TrimLower(method) \notin {"apply", "am"}
            THEN /\ pc' = [pc EXCEPT ![t] = "ret"]
                 /\ result' = [result EXCEPT
                                 ![t] = Err("method must be 'apply' or 'am'")]
          ELSE /\ pc' = [pc EXCEPT ![t] = "lock"]
               /\ result' = [result EXCEPT ![t] = NoResult]
  /\ UNCHANGED << repo, lock >>

\* git_apply_patch_file, inside the lock
ApplyPatchRun(t) ==
  /\ pc[t] = "apply_run"
  /\ IF loc[t].method = "apply"
       THEN LET o == GitApply(repo, loc[t].patch)
            IN Return(t, IF o.ok THEN Completed ELSE Err("git command failed"),
                      o.repo, "apply")
     ELSE IF repo.applyDir
       THEN Return(t, Err("A previous 'git am' (or rebase) is still in progress"),
                   repo, "am_in_progress")
     ELSE LET o == GitAm(repo, loc[t].patch)
          IN Return(t, IF o.ok THEN Completed ELSE Err("git command failed"),
                    o.repo, "am")

\* git_predict_patch_file and git_predict_patch_graph, inside the lock: the
\* patch file is read (which may fail), its touched files are listed and the
\* diff is handed to a check-only apply.  The graph variant adds a predicted
\* history computed from reads of HEAD alone.
PredictPatchRun(t) ==
  /\ pc[t] = "predict_run"
  /\ \E readable \in BOOLEAN :
       IF ~readable
         THEN Return(t, Err("Failed to read patch file"), repo, "unreadable")
       ELSE LET files == parse_touched_files_from_patch_text(loc[t].patch)
                res == GitApplyCheck(repo, loc[t].patch)
            IN Return(t, [kind |-> "predict", ok |-> res.ok, files |-> files],
                      res.repo, "predict")

\* git_interactive_rebase_edit_files, git_read_working_file,
\* git_write_working_file, git_rename_working_file, git_delete_working_file
\* and git_restore_working_file: the file system call or the git command on
\* the path, which is a tracked file of the working tree; dirty is the tree
\* differing from HEAD.
FileOpRun(t) ==
  /\ pc[t] = "file_run"
  /\ LET r == CASE op[t] \in {"write_file", "rename_file", "delete_file"}
                    -> [repo EXCEPT !.dirty = TRUE]
                 [] op[t] = "restore_file" -> [repo EXCEPT !.dirty = FALSE]
                 [] OTHER -> repo
     IN Return(t, OkResult, r, op[t])

InitPatch ==
  /\ repo \in PatchStates
  /\ lock = 0
  /\ pc = [t \in Threads |-> "idle"]
  /\ op = [t \in Threads |-> "none"]
  /\ loc = [t \in Threads |-> NoLoc]
  /\ result = [t \in Threads |-> NoResult]
  /\ calls = MaxCalls - 2

NextPatch ==
  \/ InvokePatch(1)
  \/ WithRepoGitLock(1)
  \/ ApplyPatchRun(1)
  \/ PredictPatchRun(1)
  \/ FileOpRun(1)

SpecPatch == InitPatch /\ [][NextPatch]_vars

\* C19: applyPatch with the mailbox method, called while a mailbox-apply or
\* any rebase (rebase-apply or rebase-merge) is under way, returns an error,
\* starts no new apply and leaves the repository as it was.
C19_AmRefusedMidFlight ==
  [][\A t \in Threads :
       (pc[t] = "apply_run" /\ loc[t].method = "am"
          /\ (repo.dir \/ repo.applyDir))
       => (result'[t].kind = "err" /\ repo' = repo)]_vars

\* C20: predictPatch leaves the working tree, the index and every operation
\* sentinel as they were, whatever the patch and the method; when it answers,
\* ok is true exactly when the check-only apply of the patch succeeds, and
\* the answer lists the files the patch touches whether ok is true or false.
C20_PredictIsReadOnly ==
  [][\A t \in Threads :
       pc[t] = "predict_run" =>
         /\ repo' = repo
         /\ \/ result'[t].kind = "err"
            \/ /\ result'[t].kind = "predict"
               /\ result'[t].ok = PatchFits(repo, loc[t].patch)
               /\ result'[t].files =
                    parse_touched_files_from_patch_text(loc[t].patch)]_vars

\* A mailbox patch of two hunks on two paths that does not fit the locally
\* modified tree of a repository stopped in a rebase: predictPatch has
\* answered ok = false with both files listed.
C20_Witness ==
  /\ pc[1] = "ret" /\ op[1] = "predict_patch"
  /\ loc[1].method = "am"
  /\ repo.dir /\ repo.dirty
  /\ result[1].kind = "predict"
  /\ ~result[1].ok
  /\ result[1].files = << "g", "f" >>

\* ------------------------------------------------------------------------
\* Properties of the lock, the conflict queries and the continue commands.
\* ------------------------------------------------------------------------

C22_SecondaryQueriesNeverFail ==
  \A t \in Threads :
    Returned(t, "conflict_state") =>
      /\ result[t].kind = "state"
      /\ Len(result[t].files) = Len(UnmergedFiles(repo))
      /\ \A i \in 1..Len(result[t].files) :
           /\ result[t].files[i].path = UnmergedFiles(repo)[i]
           /\ repo.statusCall # "ok" => result[t].files[i].status = "U"
           /\ repo.lsCall # "ok" => result[t].files[i].stages = << >>

\* C23: getConflictFileVersions returns the "binary not supported" error,
\* and no classification, whenever the stage-1, stage-2 or stage-3 content of
\* the path, its working-tree file, or the content of the rename target it
\* resolves for a path without stage 3 holds a NUL byte.
C23_BinaryIsRefused ==
  \A t \in Threads :
    LET q == loc[t].path
        target == IF ShowIsEmpty(repo, ":3", q) THEN RenamesGet(repo, q) ELSE {}
        nul == /\ repo.binary
               /\ \/ repo.binaryAt = "base" /\ 1 \in repo.index[q]
                  \/ repo.binaryAt = "ours" /\ 2 \in repo.index[q]
                       /\ q \notin repo.oursEmpty
                  \/ repo.binaryAt = "theirs" /\ 3 \in repo.index[q]
                       /\ q \notin repo.stage3Empty
                  \/ repo.binaryAt = "working"
                  \/ repo.binaryAt = "target"
                       /\ \E n \in target : n \in repo.theirsTree \ repo.theirsEmpty
    IN (Returned(t, "file_versions") /\ nul)
         => /\ result[t].kind = "err"
            /\ result[t].status = "Binary file preview is not supported."

\* Reached for C23: only the working-tree file of a path conflicted on both
\* sides holds a NUL byte, and the call has returned the error.
C23_Witness ==
  /\ Returned(1, "file_versions")
  /\ repo.index[loc[1].path] = {1, 2, 3}
  /\ repo.binary /\ repo.binaryAt = "working"
  /\ result[1].kind = "err"

ConflictCommands ==
  [ am_abort |->
      [guard |-> "am", verb |-> "am --abort", needs |-> "am",
       noEdit |-> FALSE, noEditor |-> FALSE],
    am_continue_msg |->
      [guard |-> "am", verb |-> "am --continue", needs |-> "am",
       noEdit |-> FALSE, noEditor |-> FALSE],
    cherry_pick_abort |->
      [guard |-> "cherry-pick", verb |-> "cherry-pick --abort",
       needs |-> "cherry-pick", noEdit |-> FALSE, noEditor |-> FALSE],
    cherry_pick_continue_msg |->
      [guard |-> "cherry-pick", verb |-> "cherry-pick --continue",
       needs |-> "cherry-pick", noEdit |-> TRUE, noEditor |-> TRUE],
    merge_continue_msg |->
      [guard |-> "merge", verb |-> "commit -F -", needs |-> "merge",
       noEdit |-> FALSE, noEditor |-> FALSE],
    rebase_continue_msg |->
      [guard |-> "rebase", verb |-> "rebase --continue", needs |-> "rebase",
       noEdit |-> TRUE, noEditor |-> TRUE],
    rebase_skip |->
      [guard |-> "", verb |-> "rebase --skip", needs |-> "rebase",
       noEdit |-> FALSE, noEditor |-> FALSE] ]

\* The same for the commands of lib.rs, all through run_git or run_git_status.
LibCommands ==
  [ merge_continue |->
      [guard |-> "", verb |-> "merge --continue", needs |-> "merge",
       noEdit |-> FALSE, noEditor |-> FALSE],
    merge_abort_plain |->
      [guard |-> "", verb |-> "merge --abort", needs |-> "merge",
       noEdit |-> FALSE, noEditor |-> FALSE],
    rebase_continue_plain |->
      [guard |-> "", verb |-> "rebase --continue", needs |-> "rebase",
       noEdit |-> FALSE, noEditor |-> FALSE],
    rebase_abort_plain |->
      [guard |-> "", verb |-> "rebase --abort", needs |-> "rebase",
       noEdit |-> FALSE, noEditor |-> FALSE] ]

\* What a handler launches after its first subprocess failed with `diag`:
\* git_rebase_continue_with_message drops --no-edit when the diagnostic names
\* an unknown option or no-edit; git_merge_continue falls back to
\* `git commit --no-edit`; every other handler returns the error.
SecondAttempt(o, c, diag) ==
  IF o = "rebase_continue_msg" /\ diag = "unknown option `no-edit'"
    THEN << [c EXCEPT !.noEdit = FALSE] >>
  ELSE IF o = "merge_continue"
    THEN << [c EXCEPT !.verb = "commit --no-edit"] >>
  ELSE << >>

\* One subprocess run: the outcomes git may produce.
GitOutcomes(r, c) ==
  IF c.verb = "rebase --continue" /\ c.noEdit /\ r.oldGit
    THEN { [repo |-> r, ok |-> FALSE, diag |-> "unknown option `no-edit'"] }
  ELSE IF r.operation # c.needs
    THEN { [repo |-> r, ok |-> FALSE, diag |-> "fatal: nothing in progress"] }
  ELSE { [repo |-> [r EXCEPT !.operation = "none"], ok |-> TRUE, diag |-> ""],
         [repo |-> r, ok |-> FALSE, diag |-> "error: conflicts"] }
       \cup IF c.needs = "rebase" /\ c.verb # "rebase --abort"
              THEN { [repo |-> r, ok |-> TRUE, diag |-> ""] }   \* the next stop
              ELSE {}

\* The UI invokes one of the commands.
InvokeCommand(t) ==
  /\ pc[t] \in {"idle", "ret"}
  /\ calls < MaxCalls
  /\ calls' = calls + 1
  /\ \E o \in DOMAIN ConflictCommands \cup DOMAIN LibCommands :
       /\ op' = [op EXCEPT ![t] = o]
       /\ pc' = [pc EXCEPT ![t] = "command_run"]
       /\ loc' = [loc EXCEPT ![t] = NoLoc]
       /\ result' = [result EXCEPT ![t] = NoResult]
  /\ UNCHANGED << repo, lock >>

\* The handler: the sentinel check, the subprocess, and what follows its
\* failure.
CommandRun(t) ==
  /\ pc[t] = "command_run"
  /\ LET o == op[t]
         c == IF o \in DOMAIN ConflictCommands THEN ConflictCommands[o]
                                               ELSE LibCommands[o]
         Res(ok, diag, launched) ==
           [kind |-> IF ok THEN "ok" ELSE "err", status |-> diag,
            launched |-> launched]
     IN IF c.guard # "" /\ repo.operation # c.guard
          THEN Return(t, Res(FALSE, "nothing in progress", << >>), repo, "guard")
        ELSE \E o1 \in GitOutcomes(repo, c) :
               LET again == IF o1.ok THEN << >> ELSE SecondAttempt(o, c, o1.diag)
               IN IF again = << >>
                    THEN Return(t, Res(o1.ok, o1.diag, << [diag |-> o1.diag] @@ c >>),
                                o1.repo, "first")
                    ELSE \E o2 \in GitOutcomes(o1.repo, again[1]) :
                           Return(t, Res(o2.ok, o2.diag,
                                         << [diag |-> o1.diag] @@ c,
                                            [diag |-> o2.diag] @@ again[1] >>),
                                  o2.repo, "second")

InitCommand ==
  /\ repo \in [operation : {"none", "merge", "rebase", "cherry-pick", "am"},
               oldGit : BOOLEAN]
  /\ lock = 0
  /\ pc = [t \in Threads |-> "idle"]
  /\ op = [t \in Threads |-> "none"]
  /\ loc = [t \in Threads |-> NoLoc]
  /\ result = [t \in Threads |-> NoResult]
  /\ calls = MaxCalls - 2

NextCommand == InvokeCommand(1) \/ CommandRun(1)

SpecCommand == InitCommand /\ [][NextCommand]_vars

\* C25: every subprocess a continue, abort or skip command launches runs
\* with the editor variables forced to a no-op.
C25_NoEditorEverywhere ==
  \A t \in Threads :
    (pc[t] = "ret" /\ op[t] \in DOMAIN ConflictCommands \cup DOMAIN LibCommands)
      => \A i \in 1..Len(result[t].launched) : result[t].launched[i].noEditor

\* C26: the rebase continue with a message launches at most two
\* subprocesses, the second one without --no-edit and only after the first
\* failed with the diagnostic of an unsupported flag; no other command
\* launches anything after a failed subprocess.
C26_OnlyOneRetry ==
  \A t \in Threads :
    (pc[t] = "ret" /\ op[t] \in DOMAIN ConflictCommands \cup DOMAIN LibCommands)
      => LET l == result[t].launched IN
           /\ Len(l) <= 2
           /\ Len(l) = 2 =>
                /\ op[t] = "rebase_continue_msg"
                /\ l[1].diag = "unknown option `no-edit'"
                /\ l[1].noEdit /\ ~l[2].noEdit

\* C27: each file command of the edit-stop (list, read, write, rename,
\* delete, restore) returns an error and leaves every file alone when no
\* rebase is stopped for an edit.
C27_FileOpsNeedEditStop ==
  [][\A t \in Threads :
       (pc[t] = "file_run" /\ ~(repo.dir /\ repo.unmerged = {}))
         => (result'[t].kind = "err" /\ repo' = repo)]_vars

\* ------------------------------------------------------------------------
\* The process-invocation entry points run_git, run_git_with_stdin and
\* run_git_stdout_raw.  The repository is here one finished subprocess: the
\* entry point that launched it, its exit code and the two captured streams,
\* texts being sequences of characters.
\* ------------------------------------------------------------------------

\* str::trim_end
RECURSIVE TrimEnd(_)
TrimEnd(s) ==
  IF s # << >> /\ s[Len(s)] \in {" ", "\n"} THEN TrimEnd(SubSeq(s, 1, Len(s) - 1))
  ELSE s

\* What the entry point returns for the finished subprocess.
run_git(out) ==
  IF out.code # 0
    THEN Err(<< "git command failed: " >> \o out.stderr)
    ELSE [OkResult EXCEPT !.status = IF out.entry = "run_git_stdout_raw"
                                        THEN out.stdout ELSE TrimEnd(out.stdout)]

ProcessRun(t) ==
  /\ pc[t] = "idle"
  /\ Return(t, run_git(repo), repo, repo.entry)

InitProcess ==
  /\ repo \in [entry : {"run_git", "run_git_with_stdin", "run_git_stdout_raw"},
               code : {0, 1, 128},
               stdout : {<< >>, << "o" >>, << "o", "\n" >>, << "o", "k" >>},
               stderr : {<< >>, << "e" >>, << "e", "\n" >>, << "e", "r" >>}]
  /\ lock = 0
  /\ pc = [t \in Threads |-> "idle"]
  /\ op = [t \in Threads |-> "none"]
  /\ loc = [t \in Threads |-> NoLoc]
  /\ result = [t \in Threads |-> NoResult]
  /\ calls = 0

NextProcess == ProcessRun(1)

SpecProcess == InitProcess /\ [][NextProcess]_vars

\* C28: each entry point turns a non-zero exit code into an error whose text
\* contains the captured standard error, or the captured standard output
\* when the standard error is empty.
C28_ErrorCarriesOutput ==
  \A t \in Threads :
    (pc[t] = "ret" /\ repo.code # 0) =>
      LET text == result[t].status
          want == IF repo.stderr # << >> THEN repo.stderr ELSE repo.stdout
      IN /\ result[t].kind = "err"
         /\ \E i \in 1..(Len(text) + 1) :
              i + Len(want) - 1 <= Len(text)
                /\ SubSeq(text, i, i + Len(want) - 1) = want

\* ------------------------------------------------------------------------
\* One call of start or continue followed to its end.
\* ------------------------------------------------------------------------

\* Either call, inside the lock.  startInteractiveRebase with a plan on a
\* repository at rest; or continueInteractiveRebase at a stop that the rebase
\* of a start can leave (an edit, or a conflict since resolved and staged),
\* where the tree may carry an unstaged change made at the stop.
InitLoop ==
  \/ InitTodo
  \/ /\ repo \in { [r EXCEPT !.unmerged = {}, !.dirty = d] :
                     r \in { x \in { GitRebaseInteractive(
                                       save_reword_map(InitRepo, b.rmap),
                                       TodoOf(b.lines), TRUE, cf, abbr).repo :
                                       b \in UNION { TodoBuilds[S] :
                                                       S \in (SUBSET Commits) \ {{}} },
                                       cf \in SUBSET Commits, abbr \in BOOLEAN } :
                             x.dir },
                     d \in BOOLEAN }
     /\ lock = 1
     /\ pc = [t \in Threads |-> IF t = 1 THEN "continue_run" ELSE "idle"]
     /\ op = [t \in Threads |-> IF t = 1 THEN "continue" ELSE "none"]
     /\ loc = [t \in Threads |-> NoLoc]
     /\ result = [t \in Threads |-> NoResult]
     /\ calls = MaxCalls

NextLoop ==
  \/ TodoBuildRun(1)
  \/ StartReset(1)
  \/ StartRebase(1)
  \/ ContinueRun(1)
  \/ LoopLoad(1)
  \/ LoopTop(1)
  \/ LoopAmend(1)
  \/ LoopContinue(1)

\* The handler runs on as long as it has a step to take.
SpecLoop == InitLoop /\ [][NextLoop]_vars /\ WF_vars(NextLoop)

\* C29: the call returns (Completed, StoppedAtEdit, Conflicts or an error),
\* every subprocess having returned, also when a continue attempt fails and
\* the state found afterwards is still an edit-stop at a commit of the
\* reword map.
C29_LoopTerminates == <>(pc[1] = "ret")

\* The entries of the plan whose commit the rebase is stopped at; and whether
\* an entry is one the loop is to amend by itself: a reword, or an edit that
\* carries a new message or a new author.
StoppedEntries(t) ==
  { loc[t].entries[i] : i \in { k \in 1..Len(loc[t].entries) :
        PrefixMatch(loc[t].entries[k].hash, read_stopped_sha(repo)) } }

IsAction(e, a) == TrimLower(e.action) = a

CarriesOverride(e) == e.new_author # None \/ e.new_message # None

\* C30: when the rebase of a start stops at an edit entry that carries a new
\* message or a new author, the loop takes the entry's override, amends the
\* stopped commit with it and runs the continue, as it does for a reword
\* entry, so that the call never comes back stopped at that commit; when it
\* stops at an edit entry that carries neither, the call returns
\* "stopped_at_edit" at that commit and changes nothing.
C30_EditWithOverrideIsReword ==
  [][\A e \in StoppedEntries(1) :
       LET auto == IsAction(e, "reword") \/ (IsAction(e, "edit") /\ CarriesOverride(e))
           head == repo.branch[Len(repo.branch)]
       IN
       /\ (pc[1] = "loop_top" /\ pc'[1] # pc[1] /\ auto)
            => /\ pc'[1] = "loop_amend"
               /\ loc'[1].cur = << [key |-> e.hash, msg |-> e.new_message,
                                    author |-> e.new_author] >>
       /\ (pc[1] = "loop_amend" /\ pc'[1] # pc[1] /\ auto)
            => /\ pc'[1] = "loop_continue"
               /\ repo' = [repo EXCEPT !.branch[Len(repo.branch)] =
                             [src    |-> Resolve(e.hash),
                              msg    |-> IF e.new_message = None THEN head.msg
                                                                 ELSE e.new_message,
                              author |-> IF e.new_author = None THEN head.author
                                                                ELSE e.new_author]]
       /\ (pc[1] = "loop_continue" /\ pc'[1] = "ret" /\ auto)
            => ~(result'[1].status = "stopped_at_edit"
                   /\ PrefixMatch(e.hash, result'[1].hash))
       /\ (pc[1] = "loop_top" /\ pc'[1] # pc[1]
             /\ IsAction(e, "edit") /\ ~CarriesOverride(e))
            => /\ pc'[1] = "ret"
               /\ result'[1].kind = "ok" /\ result'[1].status = "stopped_at_edit"
               /\ PrefixMatch(e.hash, result'[1].hash)
               /\ repo' = repo]_vars

\* Reached for C30: a start whose plan held an edit entry with an override
\* and an edit entry without one has amended the first by itself and come
\* back stopped at the second.
C30_Witness ==
  /\ pc[1] = "ret" /\ op[1] = "start"
  /\ result[1].status = "stopped_at_edit"
  /\ \E i, j \in 1..Len(loc[1].entries) :
       LET a == loc[1].entries[i]
           b == loc[1].entries[j]
       IN /\ IsAction(a, "edit") /\ CarriesOverride(a)
          /\ \E x \in loc[1].amended : x.src = Resolve(a.hash)
          /\ \E k \in 1..Len(repo.branch) :
               /\ repo.branch[k].src = Resolve(a.hash)
               /\ a.new_message # None => repo.branch[k].msg = a.new_message
               /\ a.new_author # None => repo.branch[k].author = a.new_author
          /\ IsAction(b, "edit") /\ ~CarriesOverride(b)
          /\ PrefixMatch(b.hash, result[1].hash)

\* ------------------------------------------------------------------------
\* Further properties of the conflict queries and resolutions.
\* ------------------------------------------------------------------------

\* C31: when getConflictFileVersions finds exactly one of the ours and theirs
\* contents missing (read as empty) and reports no rename, the kind is
\* modify_delete, the deleted flag of the missing side is set and that of the
\* present side is cleared.
C31_OneSideMissingIsModifyDelete ==
  \A t \in Threads :
    LET ours_missing == ShowIsEmpty(repo, ":2", loc[t].path)
        theirs_missing == ShowIsEmpty(repo, ":3", loc[t].path)
    IN (Returned(t, "file_versions") /\ result[t].kind = "versions"
          /\ result[t].conflict_kind # "rename" /\ ours_missing # theirs_missing)
         => /\ result[t].conflict_kind = "modify_delete"
            /\ result[t].ours_deleted = ours_missing
            /\ result[t].theirs_deleted = theirs_missing

\* Reached for C31: the incoming side holds the path (stage 3 with content)
\* while ours has none of it though HEAD's tree lists the path, and the
\* answer is modify_delete with ours_deleted alone.
C31_Witness ==
  /\ Returned(1, "file_versions") /\ result[1].kind = "versions"
  /\ ShowIsEmpty(repo, ":2", loc[1].path) /\ ~ShowIsEmpty(repo, ":3", loc[1].path)
  /\ loc[1].path \in repo.headTree
  /\ result[1].conflict_kind = "modify_delete"
  /\ result[1].ours_deleted /\ ~result[1].theirs_deleted

\* ------------------------------------------------------------------------
\* Further properties of git_status.
\* ------------------------------------------------------------------------

\* Does token i of the stream carry a status with R or C?
RenameToken(b, i) ==
  b[i].code # << >> /\ {b[i].code[1], b[i].code[2]} \cap {"R", "C"} # {}

\* The positions of the stream at which a record starts when a rename record
\* takes the token after it and no other record does.
RecordStarts(b) ==
  LET starts[i \in 1..Len(b)] ==
        \/ i = 1
        \/ i > 1 /\ starts[i - 1] /\ ~RenameToken(b, i - 1)
        \/ i > 2 /\ starts[i - 2] /\ RenameToken(b, i - 2)
  IN { i \in 1..Len(b) : starts[i] }

\* The text of token i as a path: of a bare path the path, of a record the
\* record, the empty text beyond the end of the stream.
TokenText(b, i) ==
  IF i > Len(b) THEN "" ELSE IF b[i].code = << >> THEN b[i].path ELSE "record"

\* C32: the parse of a status stream is, in the order of the stream, one
\* entry per record that starts at a position of RecordStarts: a record
\* without R or C gives its path and no old_path and leaves the next token to
\* be parsed as a record; a record with R or C gives its first token as path
\* and the token after it as old_path (none when that token is blank).
C32_SecondTokenOnlyForRenames ==
  pc[1] = "ret" =>
    LET b == repo.tokens
        entries == ParseStatus(b)
        recs == { i \in RecordStarts(b) : b[i].code # << >> }
        at(n) == CHOOSE i \in recs : Cardinality({ j \in recs : j < i }) = n - 1
    IN /\ Len(entries) = Cardinality(recs)
       /\ \A n \in 1..Len(entries) :
            LET i == at(n) IN
              /\ entries[n].status = b[i].code
              /\ entries[n].path = b[i].path
              /\ entries[n].old_path =
                   IF RenameToken(b, i) /\ TokenText(b, i + 1) \notin {"", " "}
                     THEN TokenText(b, i + 1)
                     ELSE None

\* Reached for C32: a rename record with its previous path, then a deletion
\* record and a further record, parsed into three entries.
C32_Witness ==
  /\ pc[1] = "ret"
  /\ Len(repo.tokens) = 4
  /\ RenameToken(repo.tokens, 1) /\ TokenText(repo.tokens, 2) = "o"
  /\ repo.tokens[3].code = << " ", "D" >> /\ repo.tokens[4].code # << >>
  /\ Len(ParseStatus(repo.tokens)) = 3
  /\ ParseStatus(repo.tokens)[1].old_path = "o"

\* ------------------------------------------------------------------------
\* Further properties of the interactive rebase.
\* ------------------------------------------------------------------------

\* C33: of two start calls that run together on a repository at rest, the
\* one that comes second to the guarded body, finding the rebase of the other
\* started, returns "already in progress" and leaves the repository, the
\* reword map included, as the first made it.
C33_SecondStartRefused ==
  [][\A t \in Threads :
       (/\ pc[t] = "start_build" /\ pc'[t] # pc[t]
        /\ is_rebase_in_progress(repo)
        /\ \E u \in Threads \ {t} :
             /\ Returned(u, "start") /\ result[u].kind = "ok"
             /\ result[u].status \in {"stopped_at_edit", "conflicts"})
         => /\ pc'[t] = "ret"
            /\ result'[t] = Err("A rebase is already in progress.")
            /\ repo' = repo]_vars

\* C34: the loop comes to its amend only with the rebase stopped and no
\* unmerged path in the index, in its first iteration and in every iteration
\* entered after a continue has returned, failed ones included.
C34_AmendOnlyWithoutConflicts ==
  \A t \in Threads :
    pc[t] = "loop_amend"
      => /\ rebase_merge_dir(repo)
         /\ list_unmerged_files(repo) = {}
         /\ detect_rebase_state(repo).status = "stopped_at_edit"

\* Reached for C34: the loop is at the amend of its second iteration, the
\* first commit amended and continued, nothing unmerged.
C34_Witness ==
  /\ pc[1] = "loop_amend" /\ op[1] = "start"
  /\ loc[1].amended # {}
  /\ read_stopped_sha(repo) \in Abbrevs(2)
  /\ list_unmerged_files(repo) = {}

\* C35: start resets the branch to the base only when every entry of the
\* plan has the action drop; an entry left out of the todo for its blank
\* hash does not bring the reset about.
C35_ResetOnlyWhenAllDropped ==
  [][(pc[1] = "start_reset" /\ pc'[1] = "ret" /\ result'[1].kind = "ok")
       => \A i \in 1..Len(loc[1].entries) : IsAction(loc[1].entries[i], "drop")]_vars

\* C36: takeOurs(p) keeps p, staged with our content, whenever our side has
\* a version of p (a stage-2 entry, be its blob empty), and takeTheirs(p)
\* keeps p, staged with their content, whenever their side has a version at p
\* (a stage-3 entry, be its blob empty); p is removed only without one.
C36_RemovedOnlyWhenAbsent ==
  [][\A t \in Threads :
       LET q == loc[t].path IN
       /\ (pc[t] = "take_ours_run" /\ pc'[t] = "ret" /\ result'[t].kind = "ok"
             /\ 2 \in repo.index[q])
            => (repo'.index[q] = {0} /\ repo'.staged[q] = "ours")
       /\ (pc[t] = "take_theirs_run" /\ pc'[t] = "ret" /\ result'[t].kind = "ok"
             /\ 3 \in repo.index[q])
            => (repo'.index[q] = {0} /\ repo'.staged[q] = "theirs")]_vars

\* C37: whenever some operation is in progress, git_continue_info, asked
\* right after getConflictState, names the operation getConflictState named.
C37_SameOperationNamed ==
  \A t \in Threads :
    (/\ Returned(t, "continue_info") /\ result[t].kind = "info"
     /\ loc[t].shown # << >> /\ loc[t].shown[1].kind = "state")
      => result[t].operation = loc[t].shown[1].operation

\* C38: every result of getConflictFileVersions has conflict_kind
\* "modify_delete" when ours_deleted or theirs_deleted is set, and a result of
\* kind "rename" names theirs_path, whose content in theirs is there, with
\* theirs_deleted unset.
C38_VersionsConsistent ==
  \A t \in Threads :
    (Returned(t, "file_versions") /\ result[t].kind = "versions") =>
      /\ (result[t].ours_deleted \/ result[t].theirs_deleted)
           => result[t].conflict_kind = "modify_delete"
      /\ result[t].conflict_kind = "rename"
           => /\ result[t].theirs_path # None
              /\ ~ShowIsEmpty(repo, "theirs", result[t].theirs_path)
              /\ ~result[t].theirs_deleted

\* ------------------------------------------------------------------------
\* Caller-supplied paths: git_conflict_apply_and_stage and the working-file
\* commands of an edit-stop.  A path is its root flag (it starts with '/')
\* and its components; the repository is the directory /home/repo, which is
\* a git working tree (ensure_is_git_worktree succeeds).  The state is the
\* log of the file-system calls, each with the location the operating
\* system resolves its argument to, and of the paths handed to `git add`.
\* ------------------------------------------------------------------------

\* The `path` argument: "", a, .., a/a, a/.., ../a, ../.., /, /a, ..
PathInputs ==
  [root : BOOLEAN,
   comps : {<< >>} \cup UNION { [1..n -> {"a", ".."}] : n \in 1..2 }]

\* safe_repo_join: the error, or "" when the path is joined to repo_path
safe_repo_join(rel_path) ==
  IF ~rel_path.root /\ rel_path.comps = << >> THEN "path is empty"
  ELSE IF rel_path.root THEN "path must be relative"
  ELSE IF \E i \in DOMAIN rel_path.comps : rel_path.comps[i] = ".."
    THEN "path must not contain '..'"
  ELSE ""

\* Path::new(repo_path).join(path) as a file-system call resolves it: an
\* absolute path replaces repo_path, and ".." steps to the parent directory.
RepoJoin(path) ==
  LET RECURSIVE Walk(_, _)
      Walk(at, rest) ==
        IF rest = << >> THEN at
        ELSE Walk(IF Head(rest) = ".."
                    THEN (IF at = << >> THEN at ELSE SubSeq(at, 1, Len(at) - 1))
                    ELSE Append(at, Head(rest)),
                  Tail(rest))
  IN Walk(IF path.root THEN << >> ELSE << "home", "repo" >>, path.comps)

\* git_conflict_apply_and_stage, the lock taken and given back within the
\* call; the write and `git add` each succeed or fail.
ApplyAndStagePath(t) ==
  /\ pc[t] \in {"idle", "ret"}
  /\ calls < MaxCalls
  /\ calls' = calls + 1
  /\ lock = 0
  /\ op' = [op EXCEPT ![t] = "apply_and_stage"]
  /\ \E path \in PathInputs, written \in BOOLEAN, added \in BOOLEAN :
       LET e == safe_repo_join(path)
           l == [NoLoc EXCEPT !.path = path]
       IN IF ~path.root /\ path.comps = << >>
            THEN /\ loc' = [loc EXCEPT ![t] = [l EXCEPT !.exit = "empty"]]
                 /\ result' = [result EXCEPT ![t] = Err("path is empty")]
                 /\ UNCHANGED repo
          ELSE IF e # ""
            THEN /\ loc' = [loc EXCEPT ![t] = [l EXCEPT !.exit = "invalid"]]
                 /\ result' = [result EXCEPT
                                 ![t] = Err(IF e = "path must be relative"
                                              THEN "Invalid path: path must be relative"
                                              ELSE "Invalid path: path must not contain '..'")]
                 /\ UNCHANGED repo
          ELSE IF ~written
            THEN /\ loc' = [loc EXCEPT ![t] = [l EXCEPT !.exit = "write_failed"]]
                 /\ result' = [result EXCEPT ![t] = Err("Failed to write file")]
                 /\ repo' = [repo EXCEPT
                               !.fs = Append(@, [call |-> "write", at |-> RepoJoin(path)])]
          ELSE /\ loc' = [loc EXCEPT ![t] = [l EXCEPT !.exit = "staged"]]
               /\ result' = [result EXCEPT
                               ![t] = IF added THEN Completed
                                               ELSE Err("git command failed")]
               /\ repo' = [repo EXCEPT
                             !.fs = Append(@, [call |-> "write", at |-> RepoJoin(path)]),
                             !.git = Append(@, path)]
  /\ pc' = [pc EXCEPT ![t] = "ret"]
  /\ UNCHANGED lock

\* git_read_working_file and git_write_working_file: repo_path joined with
\* path as given, and the file read or written; the call succeeds or fails.
WorkingFileRun(t) ==
  /\ pc[t] \in {"idle", "ret"}
  /\ calls < MaxCalls
  /\ calls' = calls + 1
  /\ \E o \in {"read_file", "write_file"}, path \in PathInputs, done \in BOOLEAN :
       /\ op' = [op EXCEPT ![t] = o]
       /\ loc' = [loc EXCEPT ![t] = [NoLoc EXCEPT !.path = path, !.exit = o]]
       /\ result' = [result EXCEPT
                       ![t] = IF done THEN Completed
                              ELSE Err(IF o = "read_file" THEN "Failed to read"
                                                          ELSE "Failed to write")]
       /\ repo' = [repo EXCEPT
                     !.fs = Append(@, [call |-> IF o = "read_file" THEN "read"
                                                                   ELSE "write",
                                       at |-> RepoJoin(path)])]
  /\ pc' = [pc EXCEPT ![t] = "ret"]
  /\ UNCHANGED lock

InitPath ==
  /\ repo = [fs |-> << >>, git |-> << >>]
  /\ lock = 0
  /\ pc = [t \in Threads |-> "idle"]
  /\ op = [t \in Threads |-> "none"]
  /\ loc = [t \in Threads |-> NoLoc]
  /\ result = [t \in Threads |-> NoResult]
  /\ calls = MaxCalls - 2

NextPath == ApplyAndStagePath(1) \/ WorkingFileRun(1)

SpecPath == InitPath /\ [][NextPath]_vars

\* The path is absolute or has a ".." component.
UnsafePath(path) ==
  path.root \/ \E i \in DOMAIN path.comps : path.comps[i] = ".."

\* C39: a command given an absolute path, or a path with a ".." component,
\* returns an error and has made no file-system call and no git call.
C39_UnsafePathRejected ==
  [][\A t \in Threads :
       (/\ calls' = calls + 1 /\ pc'[t] = "ret"
        /\ op'[t] \in {"apply_and_stage", "read_file", "write_file"}
        /\ UnsafePath(loc'[t].path))
         => (result'[t].kind = "err" /\ repo' = repo)]_vars

\* out is entries reconciled by the matching m, a set of << addition,
\* deletion >> index pairs: m is one-to-one between additions and deletions,
\* the deletions of m are gone, the additions of m are renames of their
\* deletions, and every other entry is as it was and where it was.
ReconciledBy(entries, out, m) ==
  LET n == Len(entries)
      kept == { k \in 1..n : \A pr \in m : pr[2] # k }
  IN /\ \A pr \in m : /\ IsAdd(entries[pr[1]]) /\ IsDel(entries[pr[2]])
                      /\ \A qr \in m : (pr[1] = qr[1] \/ pr[2] = qr[2]) => pr = qr
     /\ Len(out) = n - Cardinality(m)
     /\ Len(out) = Cardinality(kept)
     /\ \A j \in 1..Len(out) :
          LET k == CHOOSE i \in kept : Cardinality({ h \in kept : h < i }) = j - 1
          IN IF \E pr \in m : pr[1] = k
               THEN /\ out[j].status = << "R", " " >>
                    /\ out[j].path = entries[k].path
                    /\ \E pr \in m : pr[1] = k /\ out[j].old_path = entries[pr[2]].path
               ELSE out[j] = entries[k]

\* C40: the list getStatus returns is the parsed list reconciled by a
\* one-to-one matching of additions with deletions: its length is the input
\* length less the number of pairs, and every unmatched entry keeps its
\* status, path, old_path and relative order.
C40_RenamesOneToOne ==
  pc[1] = "ret" =>
    LET entries == ParseStatus(repo.tokens)
    IN \E m \in SUBSET ((1..Len(entries)) \X (1..Len(entries))) :
         ReconciledBy(entries, result[1].files, m)

\* a deletion was matched and an unmatched entry stays in the list beside
\* the rename
C40_Witness ==
  /\ pc[1] = "ret"
  /\ Len(result[1].files) < Len(ParseStatus(repo.tokens))
  /\ \E j \in 1..Len(result[1].files) : result[1].files[j].status # << "R", " " >>
  /\ \E j \in 1..Len(result[1].files) :
       /\ result[1].files[j].status = << "R", " " >>
       /\ result[1].files[j].old_path # None
====
